---- MODULE Spec2Model ----
(***************************************************************************)
(* A model of the runtime core of the textual application split into      *)
(* app_package/ and app_components/: the screen-stack/mode controller,     *)
(* the per-node message pump, and the registry with its register /         *)
(* detach / prune protocol, the renderer's update batches and the bridge   *)
(* for calls from other threads, and the dispatch of key presses to bound  *)
(* actions, App.suspend, the focus of the screen under removals and the    *)
(* prune operations around _dom_lock, the capture of the mouse, the        *)
(* unregistering of single nodes and one whole run of the app.  Thirteen   *)
(* specifications share the module:                                        *)
(*   SpecScreens   the screen stacks and modes (AppScreenController)       *)
(*   SpecPump      the inboxes of the nodes (the message pump)             *)
(*   SpecRegistry  registration at a position of a parent's child list     *)
(*   SpecTree      the node tree, the registry, removal and pruning        *)
(*   SpecBatch     batch_update scopes and refresh requests (AppRenderer)  *)
(*   SpecBridge    run / run_async and App.call_from_thread                *)
(*   SpecKeys      key bindings, actions, failures and the return code     *)
(*   SpecSuspend   the suspend() context manager and the driver            *)
(*   SpecFocus     the focused node while nodes are removed and pruned     *)
(*   SpecLock      "prune nodes" tasks, _close_all and _dom_lock           *)
(*   SpecMouse     capture_mouse and the messages it posts                 *)
(*   SpecUnregister  _unregister of nodes under the app, screens, widgets  *)
(*   SpecRun       run_async, _process_messages and _shutdown              *)
(* Each specification leaves the other parts' variables at their initial   *)
(* values.                                                                 *)
(***************************************************************************)
EXTENDS Integers, Sequences, FiniteSets, TLC

VARIABLES
    \* ---- screen-stack controller (app_screen_controller.py)
    app_phase,          \* "init" before the Compose event, "running", "closed" after _close_all
    MODES,              \* AppScreenController.MODES: mode name -> base screen (instance or name)
    screen_stacks,      \* _screen_stacks: mode name -> sequence of screens, top last
    current_mode,       \* _current_mode
    installed_screens,  \* _installed_screens: name -> screen instance
    result_callbacks,   \* per screen: Screen._result_callbacks, latest last
    screen_running,     \* screens that are registered with a running pump (is_running)
    pending_remove,     \* screens whose remove() was called and whose prune task has not finished
    op,                 \* the last controller operation: [name, error], and for the
                        \* operations on a named screen or mode [name, arg, error]
    posted,             \* the ScreenSuspend / ScreenResume messages posted by the last operation
    notified,           \* per screen: the last of ScreenSuspend / ScreenResume posted to it
    invoked,            \* the result-callback invocations made by the last operation
    pre_push            \* <<active stack before the push>> after a push, and after the pop that
                        \* directly follows it; <<>> otherwise

screens_vars == <<app_phase, MODES, screen_stacks, current_mode, installed_screens,
                  result_callbacks, screen_running, pending_remove, op, posted,
                  notified, invoked, pre_push>>

VARIABLES
    \* ---- message pumps (the inbox of each node)
    pump_running,       \* per node: the pump's loop is running
    pump_closed,        \* per node: the pump's loop has ended
    message_queue,      \* per node: _message_queue, oldest first; kind "None" is the close sentinel
    sent,               \* per node: how many post_message calls were made so far
    accepted,           \* per node: the ids of the messages that were enqueued, in post order
    handled,            \* per node: the ids of the messages the node handled, in handling order
    exit_flag,          \* _exit
    batch_count         \* _batch_count

pump_vars == <<pump_running, pump_closed, message_queue, sent, accepted, handled, exit_flag,
               batch_count>>

VARIABLES
    \* ---- node tree, registry and pruning (app_compositor.py, app_screen_controller.py)
    nodes,              \* per node: _nodes, the ordered list of its children
    parent,             \* per node: _parent ("None" when detached)
    registry,           \* _registry
    _running,           \* per node: _running
    closing,            \* nodes whose _close_messages(wait=True) is awaited by the prune
    mounted,            \* nodes that were registered at some time
    prune_tasks,        \* the "prune nodes" tasks created and not yet started, oldest first
    dom_lock,           \* _dom_lock is held
    prune_pc,           \* where the running prune task stands
    prune_widgets,      \* _prune_nodes: the widgets still to prune
    prune_root,         \* _prune_node: root
    node_children,      \* _prune_node: the sibling lists still to close, next first
    walk_parent,        \* the parent of each node of the subtree when _prune_node walked it
    close_log,          \* the nodes whose pumps the current _prune_node closed, in order
    pruned,             \* nodes that the prune unregistered or whose _prune_node returned
    cancels,            \* how many pumps were cancelled from outside
    tree_op             \* the last operation on the tree: [name, error, ...]

tree_vars == <<nodes, parent, registry, _running, closing, mounted, prune_tasks, dom_lock,
               prune_pc, prune_widgets, prune_root, node_children, walk_parent,
               close_log, pruned, cancels, tree_op>>

VARIABLES
    \* ---- update batches (app_renderer.py)
    batch_scopes,       \* how many `with batch_update()` scopes are open
    refresh_requests,   \* refresh() calls made since the outermost scope was entered
    idle_checks,        \* check_idle() calls made since the outermost scope was entered
    _recompose_required, \* AppRenderer._recompose_required, the flag refresh() sets
    compositor_recompose_required, \* AppCompositor._recompose_required, the flag
                        \* _check_recompose tests and clears
    recomposes,         \* recompose() calls made since the first pending request
    next_calls,         \* _check_recompose callbacks scheduled with call_next and not yet run
    render_op           \* the last renderer operation: [name, outcome, count]

render_vars == <<batch_scopes, refresh_requests, idle_checks, _recompose_required,
                 compositor_recompose_required, recomposes, next_calls, render_op>>

VARIABLES
    \* ---- the bridge for calls from other threads (app.py, lifespan_controller.py)
    _loop,              \* App._loop: the loop run_async stored ("None" when not set)
    _thread_id,         \* App._thread_id
    controller_loop,    \* AppLifespanController._loop, written by run()
    controller_thread_id, \* AppLifespanController._thread_id, written by run()
    loop_state,         \* the event loop of the run: "none", "running", "stopped", "closed"
    run_state,          \* [entry, phase]: how the app was started and how far the run is
    futures,            \* the callbacks scheduled on the loop whose caller still waits
    bridge_op,          \* the last call_from_thread: [name, caller, callback, outcome]
    runs                \* how many runs were started

bridge_vars == <<_loop, _thread_id, controller_loop, controller_thread_id, loop_state,
                 run_state, futures, bridge_op, runs>>

VARIABLES
    \* ---- key bindings, actions and the exit code (app_event_handler.py,
    \*      error_handler.py, lifespan_controller.py)
    key_bindings,       \* per namespace: its binding for the key, or NoBinding
    focused,            \* the focused node of the screen ("None" when there is none)
    key_pc,             \* "idle", or "forwarded" while a Key event travels from the
                        \* focused node back to the app
    key_log,            \* the bound actions run for the last key press, in order
    key_result,         \* how the last key press ended
    key_presses,        \* how many keys were pressed
    _return_code,       \* AppLifespanController._return_code
    handler_return_code, \* ErrorHandler._return_code
    _exception,         \* ErrorHandler._exception
    fatal               \* _handle_exception was called in this run

keys_vars == <<key_bindings, focused, key_pc, key_log, key_result, key_presses,
               _return_code, handler_return_code, _exception, fatal>>

VARIABLES
    \* ---- App.suspend (lifespan_controller.py)
    _driver,            \* AppLifespanController._driver ("None" when there is none)
    can_suspend,        \* Driver.can_suspend
    application_mode,   \* the driver is in application mode
    suspend_blocks,     \* the `with suspend()` blocks that are open, innermost last
    driver_log,         \* the signals published and the driver calls made, in order
    suspend_calls,      \* how many times suspend() was entered
    suspend_op          \* the last step of suspend(): its name and outcome

suspend_vars == <<_driver, can_suspend, application_mode, suspend_blocks, driver_log,
                  suspend_calls, suspend_op>>

VARIABLES
    \* ---- the focus of the screen (app_screen_controller.py)
    screen_focused      \* Screen.focused: a node, or "None"

focus_vars == <<screen_focused>>

VARIABLES
    \* ---- prune operations and _dom_lock (app_screen_controller.py, app_compositor.py)
    remove_tasks,       \* per "prune nodes" task: where it is, and the nodes it still
                        \* has to close
    _dom_lock,          \* the task that holds _dom_lock (0 when it is free)
    close_all,          \* _close_all: where it is, and the screens it still has to prune
    lock_op             \* the last step of a prune operation: what it did, and which
                        \* operation it was

lock_vars == <<remove_tasks, _dom_lock, close_all, lock_op>>

VARIABLES
    \* ---- mouse capture (app_event_handler.py)
    mouse_captured,     \* AppEventHandler.mouse_captured: a widget, or "None"
    mouse_log,          \* per widget: the MouseCapture / MouseRelease messages posted to it
    mouse_op            \* the last capture_mouse call: [name, arg] and the messages it posted

mouse_vars == <<mouse_captured, mouse_log, mouse_op>>

VARIABLES
    \* ---- one run of the app (lifespan_controller.py, app_event_handler.py)
    run_pc,             \* where run_async is
    run_in,             \* the arguments of the run: [auto_pilot, inline_no_clear]
    handler_driver,     \* AppEventHandler._driver: the driver _process_messages built
    auto_pilot_task,    \* auto_pilot_task of run_async: "None" or "task"
    run_log             \* the driver calls and the steps of the shutdown, in order

run_vars == <<run_pc, run_in, handler_driver, auto_pilot_task, run_log>>

late_vars == <<mouse_vars, run_vars>>

other_vars == <<suspend_vars, focus_vars, lock_vars, late_vars>>

vars == <<screens_vars, pump_vars, tree_vars, render_vars, bridge_vars, keys_vars,
          other_vars>>

----------------------------------------------------------------------------
(* Bounds of the model *)

\* deepest nesting of batch_update scopes
MaxDepth == 3

\* most refresh() calls between two entries of an outermost scope
MaxRefresh == 3

\* most callbacks scheduled with call_next and waiting
MaxCalls == 2

\* most runs of the app one after the other
MaxRuns == 2

\* most key presses of a run
MaxKeys == 1

\* most calls of suspend() in a run
MaxSuspends == 4

\* most "prune nodes" tasks of a run, and most nodes one prune operation closes
MaxPrunes == 2
MaxNodes == 2
\* the "prune nodes" tasks; 0 is nobody, CloseAll is the shutdown
PruneTasks == 1..MaxPrunes
CloseAll == MaxPrunes + 1

\* most MouseCapture / MouseRelease messages one widget is sent in a run
MaxMouse == 3
\* the widgets that ask for the mouse
MouseWidgets == {"a", "b", "a1", "b1"}

\* longest screen stack a push may still grow
MaxStack == 2
\* most result-callback entries one screen may hold before a further push is not explored
MaxCallbacks == 1

\* most post_message calls made to one node
MaxPosts == 3

\* The screen instances: "D" is the one get_default_screen returns.
Screens == {"D", "A"}
DefaultScreen == "D"
\* Names a screen may be installed under.
ScreenNames == {"home"}
\* What push_screen / switch_screen / add_mode accept: an instance or a name.
ScreenArgs == Screens \cup ScreenNames
ModeNames == {"_default", "m1", "m2"}
\* The base screen add_mode is given for each mode: an instance, or a name.
ModeBase == [m \in ModeNames |-> IF m = "m2" THEN "home" ELSE "D"]
\* The result callbacks push_screen is given; switch_screen attaches "None".
Callbacks == {"cb"}
NoScreen == "KeyError"
EmptyFn == [x \in {} |-> x]
\* The nodes whose inboxes are modelled: the app and one widget.
PumpNodes == {"app", "widget"}

\* most widgets one removal request names
MaxRequest == 2
\* most prune tasks waiting to start
MaxTasks == 1
\* most pumps cancelled from outside
MaxCancels == 1

\* The node tree: the screen on top, never removed, and the widgets mounted below it.
TreeRoot == "screen"
Widgets == {"p", "a", "b", "a1", "b1", "b11"}
Nodes == Widgets \cup {TreeRoot}
NoParent == "None"
\* The parent each widget is mounted under when the tree is grown for pruning.
MountParent ==
    [w \in Widgets |->
        CASE w = "p" -> TreeRoot
          [] w \in {"a", "b"} -> "p"
          [] w = "a1" -> "a"
          [] w = "b1" -> "b"
          [] OTHER -> "b1"]
\* The widgets mounted with a free choice of parent and position.
PlacedWidgets == {"p", "a", "b"}
\* before / after: << >> is None, << k >> is the index k
NoIndex == << >>

\* The namespaces of a binding chain: the focused widget, its screen and the app.
Namespaces == {"widget", "screen", "app"}

\* a namespace without a binding for the key (bindings.keys.get(key) is None)
NoBinding == [bound |-> FALSE, priority |-> FALSE, action |-> "none"]

\* _return_code before exit() or a failure set it (None in the code), and the codes
\* exit() is called with
NoCode == << >>
ReturnCodes == {0, 2}

\* App._loop before a run stored a loop (None in the code)
NoLoop == "None"

----------------------------------------------------------------------------
(* Helpers of the screen controller *)

\* the top of a stack; reading the top of an empty stack fails in the code
Last(s) == IF Len(s) = 0 THEN "ScreenStackError" ELSE s[Len(s)]
Front(s) == SubSeq(s, 1, Len(s) - 1)

\* an append at the wrong end of the list
StackPushFront(stack, screen) == << screen >> \o stack

\* list.append on a screen stack
StackPush(stack, screen) == Append(stack, screen)

\* a pop from the wrong end of the list
StackPopFirst(stack) == Tail(stack)

\* list.pop() on a screen stack: the top leaves
StackPop(stack) == Front(stack)
InSeq(x, s) == \E i \in 1..Len(s) : s[i] = x

\* _screen_stack: the stack of the current mode
ActiveStack == screen_stacks[current_mode]

\* screen: the top of the active stack
CurrentScreen == Last(ActiveStack)

\* is_screen_installed for a Screen instance
is_screen_installed(screen) ==
    \E n \in DOMAIN installed_screens : installed_screens[n] = screen

\* get_screen: an instance is itself, a name is looked up (KeyError when not installed)
get_screen(arg) ==
    IF arg \in Screens THEN arg
    ELSE IF arg \in DOMAIN installed_screens THEN installed_screens[arg]
    ELSE NoScreen

\* _get_screen registers the screen when it is not running
RunningAfterGet(screen) == screen_running \cup {screen}

\* a test for removing the screen that forgets the installed screens
MustRemoveNotOnStack(screen, stacks) ==
    \A m \in DOMAIN stacks : ~InSeq(screen, stacks[m])

\* the test of _replace_screen for removing the screen, against the stacks `stacks`
MustRemove(screen, stacks) ==
    /\ ~is_screen_installed(screen)
    /\ \A m \in DOMAIN stacks : ~InSeq(screen, stacks[m])

\* Screen.remove() of a screen: its prune is scheduled when it is running
RemoveScheduled(screen, running) == IF screen \in running THEN {screen} ELSE {}

\* Screen._pop_result_callback: the latest entry leaves the stack of callbacks
PopCallback(cbs) == IF Len(cbs) > 0 THEN Front(cbs) ELSE cbs

\* what Screen._pop_result_callback invokes: the pending callback, with no value
PopInvocation(screen, cbs) ==
    IF Len(cbs) > 0 /\ Last(cbs) # "None"
    THEN << [screen |-> screen, callback |-> Last(cbs), value |-> "None"] >>
    ELSE << >>

Msg(screen, kind) == [to |-> screen, kind |-> kind]

\* the last message of each screen after the messages msgs were posted in order
RECURSIVE Notified(_, _)
Notified(last, msgs) ==
    IF msgs = << >> THEN last
    ELSE Notified([last EXCEPT ![Head(msgs).to] = Head(msgs).kind], Tail(msgs))

----------------------------------------------------------------------------
(* Initial state: the controller after _init_ *)

InitScreenVars ==
    /\ app_phase = "init"
    /\ MODES = EmptyFn
    /\ screen_stacks = [m \in {"_default"} |-> << >>]
    /\ current_mode = "_default"
    /\ installed_screens \in {EmptyFn, [n \in {"home"} |-> "A"]}
    /\ result_callbacks = [s \in Screens |-> << >>]
    /\ screen_running = {}
    /\ pending_remove = {}
    /\ op = [name |-> "init", error |-> "ok"]
    /\ posted = << >>
    /\ notified = [s \in Screens |-> "None"]
    /\ invoked = << >>
    /\ pre_push = << >>

\* the message pumps stay as constructed
PumpIdle ==
    /\ pump_running = [n \in PumpNodes |-> FALSE]
    /\ pump_closed = [n \in PumpNodes |-> FALSE]
    /\ message_queue = [n \in PumpNodes |-> << >>]
    /\ sent = [n \in PumpNodes |-> 0]
    /\ accepted = [n \in PumpNodes |-> << >>]
    /\ handled = [n \in PumpNodes |-> << >>]
    /\ exit_flag = FALSE
    /\ batch_count = 0

\* the tree stays as constructed: the screen alone, registered and running
TreeIdle ==
    /\ nodes = [n \in Nodes |-> << >>]
    /\ parent = [n \in Nodes |-> NoParent]
    /\ registry = {TreeRoot}
    /\ _running = [n \in Nodes |-> n = TreeRoot]
    /\ closing = {}
    /\ mounted = {}
    /\ prune_tasks = << >>
    /\ dom_lock = FALSE
    /\ prune_pc = "idle"
    /\ prune_widgets = << >>
    /\ prune_root = NoParent
    /\ node_children = << >>
    /\ walk_parent = [n \in Nodes |-> NoParent]
    /\ close_log = << >>
    /\ pruned = {}
    /\ cancels = 0
    /\ tree_op = [name |-> "init", error |-> "ok"]

\* the renderer stays as constructed: no batch open
RenderIdle ==
    /\ batch_scopes = 0
    /\ refresh_requests = 0
    /\ idle_checks = 0
    /\ _recompose_required = FALSE
    /\ compositor_recompose_required = FALSE
    /\ recomposes = 0
    /\ next_calls = 0
    /\ render_op = [name |-> "init", outcome |-> "return", count |-> 0]

\* no run was started and no other thread called in
BridgeIdle ==
    /\ _loop = NoLoop
    /\ _thread_id = 0
    /\ controller_loop = NoLoop
    /\ controller_thread_id = 0
    /\ loop_state = "none"
    /\ run_state = [entry |-> "none", phase |-> "idle"]
    /\ futures = << >>
    /\ bridge_op = [name |-> "init", caller |-> 0, callback |-> "none", outcome |-> "none"]
    /\ runs = 0

\* no key was pressed, no handler failed and exit() was not called
KeysIdle ==
    /\ key_bindings = [n \in Namespaces |-> NoBinding]
    /\ focused = "None"
    /\ key_pc = "idle"
    /\ key_log = << >>
    /\ key_result = "none"
    /\ key_presses = 0
    /\ _return_code = NoCode
    /\ handler_return_code = NoCode
    /\ _exception = "None"
    /\ fatal = FALSE

\* suspend() was not called: the driver is in application mode
SuspendIdle ==
    /\ _driver = "driver"
    /\ can_suspend = TRUE
    /\ application_mode = TRUE
    /\ suspend_blocks = << >>
    /\ driver_log = << >>
    /\ suspend_calls = 0
    /\ suspend_op = [name |-> "init", outcome |-> "none"]

\* no node has the focus
FocusIdle == screen_focused = "None"

\* no prune operation was started
LockIdle ==
    /\ remove_tasks = [t \in PruneTasks |-> [pc |-> "none", left |-> 0]]
    /\ _dom_lock = 0
    /\ close_all = [pc |-> "none", left |-> 0]
    /\ lock_op = [name |-> "init", who |-> 0]

\* no widget has captured the mouse
MouseIdle ==
    /\ mouse_captured = "None"
    /\ mouse_log = [w \in MouseWidgets |-> << >>]
    /\ mouse_op = [name |-> "init", arg |-> "None", posted |-> << >>]

\* run_async was not called
RunIdle ==
    /\ run_pc = "idle"
    /\ run_in = [auto_pilot |-> FALSE, inline_no_clear |-> FALSE]
    /\ handler_driver = "None"
    /\ auto_pilot_task = "None"
    /\ run_log = << >>

LateIdle == MouseIdle /\ RunIdle

OthersIdle == SuspendIdle /\ FocusIdle /\ LockIdle /\ LateIdle

InitScreens ==
    InitScreenVars /\ PumpIdle /\ TreeIdle /\ RenderIdle /\ BridgeIdle /\ KeysIdle
    /\ OthersIdle

----------------------------------------------------------------------------
(* Operations of the screen controller *)

\* on_event(Compose): the default screen is registered, put on the stack and resumed
Compose ==
    /\ app_phase = "init"
    /\ app_phase' = "running"
    /\ screen_running' = screen_running \cup {DefaultScreen}
    /\ screen_stacks' = [screen_stacks EXCEPT
                            ![current_mode] = StackPush(@, DefaultScreen)]
    /\ posted' = << Msg(DefaultScreen, "ScreenResume") >>
    /\ op' = [name |-> "compose", error |-> "ok"]
    /\ invoked' = << >>
    /\ pre_push' = << >>
    /\ UNCHANGED <<MODES, current_mode, installed_screens, result_callbacks,
                   pending_remove>>
    /\ notified' = Notified(notified, posted')
    /\ UNCHANGED <<pump_vars, tree_vars, render_vars,
                   bridge_vars, keys_vars, other_vars>>

\* push_screen(screen, callback, wait_for_dismiss); in_worker: whether a worker is active
push_screen(arg, callback, wait_for_dismiss, in_worker) ==
    LET next_screen == get_screen(arg)
        suspend == IF Len(ActiveStack) > 0
                   THEN << Msg(CurrentScreen, "ScreenSuspend") >> ELSE << >>
    IN
    /\ app_phase = "running"
    /\ invoked' = << >>
    /\ IF next_screen = NoScreen
       THEN \* _get_screen raised KeyError, after the current screen was suspended
            /\ posted' = suspend
            /\ op' = [name |-> "push_screen", error |-> "KeyError"]
            /\ pre_push' = << >>
            /\ UNCHANGED <<screen_stacks, result_callbacks, screen_running>>
       ELSE /\ Len(ActiveStack) < MaxStack
            /\ Len(result_callbacks[next_screen]) < MaxCallbacks
            /\ screen_running' = RunningAfterGet(next_screen)
            /\ result_callbacks' = [result_callbacks EXCEPT
                                      ![next_screen] = Append(@, callback)]
            /\ screen_stacks' = [screen_stacks EXCEPT
                                    ![current_mode] = StackPush(@, next_screen)]
            /\ posted' = suspend \o << Msg(next_screen, "ScreenResume") >>
            /\ op' = [name |-> "push_screen",
                      error |-> IF wait_for_dismiss /\ ~in_worker
                                THEN "NoActiveWorker" ELSE "ok"]
            /\ pre_push' = << ActiveStack >>
    /\ UNCHANGED <<app_phase, MODES, current_mode, installed_screens, pending_remove>>
    /\ notified' = Notified(notified, posted')
    /\ UNCHANGED <<pump_vars, tree_vars, render_vars,
                   bridge_vars, keys_vars, other_vars>>

\* a guard that lets the base screen be popped
PopUnderflowEmptyOnly == Len(ActiveStack) < 1

\* the guard of pop_screen: a mode keeps its base screen
PopUnderflow == Len(ActiveStack) <= 1

\* pop_screen()
pop_screen ==
    /\ app_phase = "running"
    /\ IF PopUnderflow
       THEN /\ op' = [name |-> "pop_screen", error |-> "ScreenStackError"]
            /\ posted' = << >>
            /\ invoked' = << >>
            /\ pre_push' = << >>
            /\ UNCHANGED <<screen_stacks, result_callbacks, pending_remove>>
       ELSE LET previous_screen == CurrentScreen
                stacks == [screen_stacks EXCEPT ![current_mode] = StackPop(@)]
            IN
            /\ screen_stacks' = stacks
            /\ pending_remove' =
                  IF MustRemove(previous_screen, stacks)
                  THEN pending_remove \cup RemoveScheduled(previous_screen, screen_running)
                  ELSE pending_remove
            /\ result_callbacks' = [result_callbacks EXCEPT
                                      ![previous_screen] = PopCallback(@)]
            /\ invoked' = PopInvocation(previous_screen,
                                        result_callbacks[previous_screen])
            /\ posted' = << Msg(previous_screen, "ScreenSuspend"),
                            Msg(Last(stacks[current_mode]), "ScreenResume") >>
            /\ op' = [name |-> "pop_screen", error |-> "ok"]
            /\ pre_push' = IF op.name = "push_screen" THEN pre_push ELSE << >>
    /\ UNCHANGED <<app_phase, MODES, current_mode, installed_screens, screen_running>>
    /\ notified' = Notified(notified, posted')
    /\ UNCHANGED <<pump_vars, tree_vars, render_vars,
                   bridge_vars, keys_vars, other_vars>>

\* a test for the current screen that never finds it
AlreadyCurrentNever(arg, next_screen) == FALSE

\* `screen is self.screen or next_screen is self.screen`
AlreadyCurrent(arg, next_screen) == arg = CurrentScreen \/ next_screen = CurrentScreen

\* switch_screen(screen)
switch_screen(arg) ==
    LET next_screen == get_screen(arg) IN
    /\ app_phase = "running"
    /\ IF next_screen = NoScreen
       THEN \* _get_screen raised KeyError before anything else happened
            /\ op' = [name |-> "switch_screen", arg |-> arg, error |-> "KeyError"]
            /\ posted' = << >>
            /\ invoked' = << >>
            /\ UNCHANGED <<screen_stacks, result_callbacks, screen_running,
                           pending_remove>>
       ELSE IF AlreadyCurrent(arg, next_screen)
       THEN \* already current: only _get_screen has run
            /\ screen_running' = RunningAfterGet(next_screen)
            /\ op' = [name |-> "switch_screen", arg |-> arg, error |-> "noop"]
            /\ posted' = << >>
            /\ invoked' = << >>
            /\ UNCHANGED <<screen_stacks, result_callbacks, pending_remove>>
       ELSE LET previous_screen == CurrentScreen
                popped == [screen_stacks EXCEPT ![current_mode] = StackPop(@)]
                running == RunningAfterGet(next_screen)
                cbs == [result_callbacks EXCEPT
                           ![previous_screen] = PopCallback(@)]
            IN
            /\ Len(result_callbacks[next_screen]) < MaxCallbacks
            /\ screen_running' = running
            /\ pending_remove' =
                  IF MustRemove(previous_screen, popped)
                  THEN pending_remove \cup RemoveScheduled(previous_screen, running)
                  ELSE pending_remove
            /\ invoked' = PopInvocation(previous_screen,
                                        result_callbacks[previous_screen])
            /\ screen_stacks' = [popped EXCEPT
                                    ![current_mode] = StackPush(@, next_screen)]
            /\ result_callbacks' = [cbs EXCEPT ![next_screen] = Append(@, "None")]
            /\ posted' = << Msg(previous_screen, "ScreenSuspend"),
                            Msg(next_screen, "ScreenResume") >>
            /\ op' = [name |-> "switch_screen", arg |-> arg, error |-> "ok"]
    /\ pre_push' = << >>
    /\ UNCHANGED <<app_phase, MODES, current_mode, installed_screens>>
    /\ notified' = Notified(notified, posted')
    /\ UNCHANGED <<pump_vars, tree_vars, render_vars,
                   bridge_vars, keys_vars, other_vars>>

\* a first activation that puts the base screen on the stack twice
InitModeStackTwice(mode) == << get_screen(MODES[mode]), get_screen(MODES[mode]) >>

\* a check of switch_mode that takes a mode with a stack for a known one
UnknownModeNoStack(mode) == mode \notin DOMAIN MODES /\ mode \notin DOMAIN screen_stacks

\* `mode not in self.MODES`
UnknownMode(mode) == mode \notin DOMAIN MODES

\* _init_mode(mode), for a mode without a stack: the stack holding the base screen
InitModeStack(mode) == << get_screen(MODES[mode]) >>

\* switch_mode(mode)
switch_mode(mode) ==
    /\ app_phase = "running"
    /\ invoked' = << >>
    /\ pre_push' = << >>
    /\ IF UnknownMode(mode)
       THEN /\ op' = [name |-> "switch_mode", arg |-> mode, error |-> "UnknownModeError"]
            /\ posted' = << >>
            /\ UNCHANGED <<screen_stacks, current_mode, screen_running>>
       ELSE IF mode \notin DOMAIN screen_stacks /\ get_screen(MODES[mode]) = NoScreen
       THEN \* _init_mode raised KeyError, after the current screen was suspended
            /\ op' = [name |-> "switch_mode", arg |-> mode, error |-> "KeyError"]
            /\ posted' = << Msg(CurrentScreen, "ScreenSuspend") >>
            /\ UNCHANGED <<screen_stacks, current_mode, screen_running>>
       ELSE LET stacks == IF mode \in DOMAIN screen_stacks
                          THEN screen_stacks
                          ELSE screen_stacks @@ (mode :> InitModeStack(mode))
            IN
            /\ screen_stacks' = stacks
            /\ screen_running' = IF mode \in DOMAIN screen_stacks
                                 THEN screen_running
                                 ELSE RunningAfterGet(get_screen(MODES[mode]))
            /\ current_mode' = mode
            /\ posted' = << Msg(CurrentScreen, "ScreenSuspend"),
                            Msg(Last(stacks[mode]), "ScreenResume") >>
            /\ op' = [name |-> "switch_mode", arg |-> mode, error |-> "ok"]
    /\ UNCHANGED <<app_phase, MODES, installed_screens, result_callbacks,
                   pending_remove>>
    /\ notified' = Notified(notified, posted')
    /\ UNCHANGED <<pump_vars, tree_vars, render_vars,
                   bridge_vars, keys_vars, other_vars>>

\* a check of add_mode that lets the reserved name through
AddModeErrorDuplicateOnly(mode) == mode \in DOMAIN MODES

\* the checks add_mode makes before it changes anything
AddModeError(mode) == mode = "_default" \/ mode \in DOMAIN MODES

\* add_mode(mode, base_screen)
add_mode(mode, base_screen) ==
    /\ app_phase = "running"
    /\ IF AddModeError(mode)
       THEN /\ op' = [name |-> "add_mode", arg |-> mode, error |-> "InvalidModeError"]
            /\ UNCHANGED MODES
       ELSE /\ MODES' = MODES @@ (mode :> base_screen)
            /\ op' = [name |-> "add_mode", arg |-> mode, error |-> "ok"]
    /\ posted' = << >>
    /\ invoked' = << >>
    /\ pre_push' = << >>
    /\ UNCHANGED <<app_phase, screen_stacks, current_mode, installed_screens,
                   result_callbacks, screen_running, pending_remove>>
    /\ notified' = Notified(notified, posted')
    /\ UNCHANGED <<pump_vars, tree_vars, render_vars,
                   bridge_vars, keys_vars, other_vars>>

Restrict(f, S) == [x \in S |-> f[x]]

\* the screens of `stack`, top first, that _replace_screen removes, given the
\* remaining stacks
RECURSIVE RemovedOf(_, _)
RemovedOf(stack, stacks) ==
    IF Len(stack) = 0 THEN {}
    ELSE (IF MustRemove(Last(stack), stacks) THEN {Last(stack)} ELSE {})
         \cup RemovedOf(Front(stack), stacks)

\* the ScreenSuspend messages of remove_mode: one per screen of the stack, top first
RECURSIVE SuspendAll(_)
SuspendAll(stack) ==
    IF Len(stack) = 0 THEN << >>
    ELSE << Msg(Last(stack), "ScreenSuspend") >> \o SuspendAll(Front(stack))

\* a check of remove_mode that forgets the active mode
RemoveModeErrorNoActive(mode) ==
    IF mode \notin DOMAIN MODES THEN "UnknownModeError" ELSE "ok"

\* the checks remove_mode makes before it changes anything
RemoveModeError(mode) ==
    IF mode = current_mode THEN "ActiveModeError"
    ELSE IF mode \notin DOMAIN MODES THEN "UnknownModeError"
    ELSE "ok"

\* remove_mode(mode)
remove_mode(mode) ==
    /\ app_phase = "running"
    /\ invoked' = << >>
    /\ pre_push' = << >>
    /\ IF RemoveModeError(mode) # "ok"
       THEN /\ op' = [name |-> "remove_mode", arg |-> mode, error |-> RemoveModeError(mode)]
            /\ posted' = << >>
            /\ UNCHANGED <<MODES, screen_stacks, pending_remove>>
       ELSE /\ MODES' = Restrict(MODES, DOMAIN MODES \ {mode})
            /\ op' = [name |-> "remove_mode", arg |-> mode, error |-> "ok"]
            /\ IF mode \notin DOMAIN screen_stacks
               THEN /\ posted' = << >>
                    /\ UNCHANGED <<screen_stacks, pending_remove>>
               ELSE LET stack == screen_stacks[mode]
                        stacks == Restrict(screen_stacks,
                                           DOMAIN screen_stacks \ {mode})
                    IN
                    /\ screen_stacks' = stacks
                    /\ posted' = SuspendAll(stack)
                    /\ pending_remove' = pending_remove \cup
                          (RemovedOf(stack, stacks) \cap screen_running)
    /\ UNCHANGED <<app_phase, current_mode, installed_screens, result_callbacks,
                   screen_running>>
    /\ notified' = Notified(notified, posted')
    /\ UNCHANGED <<pump_vars, tree_vars, render_vars,
                   bridge_vars, keys_vars, other_vars>>

\* the prune task that Screen.remove() started finishes: the screen's pump is closed
\* and the screen is unregistered
prune_widgets_task_done(screen) ==
    /\ screen \in pending_remove
    /\ pending_remove' = pending_remove \ {screen}
    /\ screen_running' = screen_running \ {screen}
    /\ op' = [name |-> "prune_done", error |-> "ok"]
    /\ posted' = << >>
    /\ invoked' = << >>
    /\ UNCHANGED <<app_phase, MODES, screen_stacks, current_mode, installed_screens,
                   result_callbacks, pre_push>>
    /\ notified' = Notified(notified, posted')
    /\ UNCHANGED <<pump_vars, tree_vars, render_vars,
                   bridge_vars, keys_vars, other_vars>>

\* _close_all(): every running screen of every stack is pruned, every stack cleared,
\* every remaining pump closed; it is called once, by _shutdown
_close_all ==
    /\ app_phase \in {"init", "running"}
    /\ app_phase' = "closed"
    /\ screen_stacks' = [m \in DOMAIN screen_stacks |-> << >>]
    /\ screen_running' = {}
    /\ pending_remove' = {}
    /\ op' = [name |-> "_close_all", error |-> "ok"]
    /\ posted' = << >>
    /\ invoked' = << >>
    /\ pre_push' = << >>
    /\ UNCHANGED <<MODES, current_mode, installed_screens, result_callbacks>>
    /\ notified' = Notified(notified, posted')
    /\ UNCHANGED <<pump_vars, tree_vars, render_vars,
                   bridge_vars, keys_vars, other_vars>>

ScreensNext ==
    \/ Compose
    \/ \E arg \in ScreenArgs, callback \in Callbacks,
          wait_for_dismiss \in BOOLEAN, in_worker \in BOOLEAN :
            push_screen(arg, callback, wait_for_dismiss, in_worker)
    \/ pop_screen
    \/ \E arg \in ScreenArgs : switch_screen(arg)
    \/ \E mode \in ModeNames : switch_mode(mode)
    \/ \E mode \in ModeNames : add_mode(mode, ModeBase[mode])
    \/ \E mode \in ModeNames : remove_mode(mode)
    \/ \E screen \in Screens : prune_widgets_task_done(screen)
    \/ _close_all

SpecScreens == InitScreens /\ [][ScreensNext]_vars

----------------------------------------------------------------------------
(* Claims about the screen controller, checked under SpecScreens *)

\* C1: pop_screen on an active stack of exactly one screen fails with
\* ScreenStackError and changes nothing: the stacks, the current mode and every
\* screen's pending result callbacks stay as they were, and no ScreenSuspend or
\* ScreenResume is posted.
C1_PopUnderflowChangesNothing ==
    [][ (op'.name = "pop_screen" /\ Len(ActiveStack) = 1)
        => /\ op'.error = "ScreenStackError"
           /\ screen_stacks' = screen_stacks
           /\ current_mode' = current_mode
           /\ result_callbacks' = result_callbacks
           /\ posted' = << >>
           /\ invoked' = << >> ]_vars

C1_Witness ==
    /\ op.name = "pop_screen"
    /\ op.error = "ScreenStackError"
    /\ Len(ActiveStack) = 1

\* C2: push_screen(B) directly followed by pop_screen() leaves the active stack as
\* it was before the push, and the result callback that push attached to B is
\* invoked at most once, with no value.
C2_PushPopRestores ==
    (op.name = "pop_screen" /\ op.error = "ok" /\ pre_push # << >>)
    => /\ ActiveStack = pre_push[1]
       /\ Len(invoked) <= 1
       /\ \A i \in 1..Len(invoked) : invoked[i].value = "None"

C2_Witness ==
    /\ op.name = "pop_screen"
    /\ op.error = "ok"
    /\ pre_push # << >>
    /\ Len(pre_push[1]) > 0
    /\ Len(invoked) = 1

\* C3: from the Compose event until _close_all, whatever push_screen, pop_screen,
\* switch_screen, switch_mode, add_mode and remove_mode do, the "_default" stack
\* and the active mode's stack are non-empty.
C3_StacksNeverEmpty ==
    app_phase = "running"
    => /\ "_default" \in DOMAIN screen_stacks
       /\ Len(screen_stacks["_default"]) > 0
       /\ current_mode \in DOMAIN screen_stacks
       /\ Len(ActiveStack) > 0

C3_Witness ==
    /\ app_phase = "running"
    /\ op.name = "remove_mode"
    /\ op.error = "ok"
    /\ Len(posted) > 0
    /\ current_mode # "_default"

----------------------------------------------------------------------------
(* The message pumps *)

\* the screen controller stays as constructed, with the default screen composed
ScreensIdle ==
    /\ app_phase = "running"
    /\ MODES = EmptyFn
    /\ screen_stacks = [m \in {"_default"} |-> << DefaultScreen >>]
    /\ current_mode = "_default"
    /\ installed_screens = EmptyFn
    /\ result_callbacks = [s \in Screens |-> << >>]
    /\ screen_running = {DefaultScreen}
    /\ pending_remove = {}
    /\ op = [name |-> "compose", error |-> "ok"]
    /\ posted = << >>
    /\ notified = [s \in Screens |-> "None"]
    /\ invoked = << >>
    /\ pre_push = << >>

InitPump ==
    ScreensIdle /\ PumpIdle /\ TreeIdle /\ RenderIdle /\ BridgeIdle /\ KeysIdle
    /\ OthersIdle

\* the item that ends a pump's loop (None in the code)
CloseSentinel == [id |-> 0, kind |-> "None"]

\* a put that jumps the queue
QueuePutFirst(queue, item) == << item >> \o queue

\* asyncio.Queue.put on a node's _message_queue: the item joins at the back
QueuePut(queue, item) == Append(queue, item)

\* _start_messages: the node's processing loop begins
start_messages(n) ==
    /\ ~pump_running[n]
    /\ ~pump_closed[n]
    /\ pump_running' = [pump_running EXCEPT ![n] = TRUE]
    /\ UNCHANGED <<pump_closed, message_queue, sent, accepted, handled, exit_flag,
                   batch_count>>
    /\ UNCHANGED <<screens_vars, tree_vars, render_vars,
                   bridge_vars, keys_vars, other_vars>>

\* post_message(message) on node n: enqueued when the pump runs, dropped silently
\* when it does not; the message's id is its number among the posts to n
post_message(n, kind) ==
    /\ sent[n] < MaxPosts
    /\ sent' = [sent EXCEPT ![n] = @ + 1]
    /\ IF pump_running[n]
       THEN /\ message_queue' = [message_queue EXCEPT
                  ![n] = QueuePut(@, [id |-> sent[n] + 1, kind |-> kind])]
            /\ accepted' = [accepted EXCEPT ![n] = Append(@, sent[n] + 1)]
       ELSE UNCHANGED <<message_queue, accepted>>

\* a handler or another node posts an event to n
post_event(n) ==
    /\ post_message(n, "Event")
    /\ UNCHANGED <<pump_running, pump_closed, handled, exit_flag, batch_count>>
    /\ UNCHANGED <<screens_vars, tree_vars, render_vars,
                   bridge_vars, keys_vars, other_vars>>

\* exit(result, return_code): the exit flag and the return code are set and ExitApp is
\* posted to the app
exit(return_code) ==
    /\ exit_flag' = TRUE
    /\ _return_code' = << return_code >>
    /\ post_message("app", "ExitApp")
    /\ UNCHANGED <<pump_running, pump_closed, handled, batch_count>>
    /\ UNCHANGED <<key_bindings, focused, key_pc, key_log, key_result, key_presses,
                   handler_return_code, _exception, fatal>>
    /\ UNCHANGED <<screens_vars, tree_vars, render_vars, bridge_vars, other_vars>>

\* _close_messages on a widget: the close sentinel is put on its queue
close_messages(n) ==
    /\ n # "app"
    /\ pump_running[n]
    /\ ~InSeq(CloseSentinel, message_queue[n])
    /\ message_queue' = [message_queue EXCEPT ![n] = QueuePut(@, CloseSentinel)]
    /\ UNCHANGED <<pump_running, pump_closed, sent, accepted, handled, exit_flag,
                   batch_count>>
    /\ UNCHANGED <<screens_vars, tree_vars, render_vars,
                   bridge_vars, keys_vars, other_vars>>

\* one turn of n's processing loop: the oldest item of the queue is taken; the
\* sentinel ends the loop, ExitApp runs _on_exit_app (a batch begins, the sentinel
\* is put on the app's own queue), any message is handled
process_message(n) ==
    /\ pump_running[n]
    /\ Len(message_queue[n]) > 0
    /\ LET item == Head(message_queue[n])
           rest == Tail(message_queue[n])
       IN
       IF item = CloseSentinel
       THEN /\ pump_running' = [pump_running EXCEPT ![n] = FALSE]
            /\ pump_closed' = [pump_closed EXCEPT ![n] = TRUE]
            /\ message_queue' = [message_queue EXCEPT ![n] = rest]
            /\ UNCHANGED <<handled, batch_count>>
       ELSE /\ handled' = [handled EXCEPT ![n] = Append(@, item.id)]
            /\ IF item.kind = "ExitApp"
               THEN /\ batch_count' = batch_count + 1
                    /\ message_queue' = [message_queue EXCEPT
                                            ![n] = QueuePut(rest, CloseSentinel)]
               ELSE /\ message_queue' = [message_queue EXCEPT ![n] = rest]
                    /\ UNCHANGED batch_count
            /\ UNCHANGED <<pump_running, pump_closed>>
    /\ UNCHANGED <<sent, accepted, exit_flag>>
    /\ UNCHANGED <<screens_vars, tree_vars, render_vars,
                   bridge_vars, keys_vars, other_vars>>

PumpNext ==
    \/ \E n \in PumpNodes : start_messages(n)
    \/ \E n \in PumpNodes : post_event(n)
    \/ \E return_code \in ReturnCodes : exit(return_code)
    \/ \E n \in PumpNodes : close_messages(n)
    \/ \E n \in PumpNodes : process_message(n)

SpecPump == InitPump /\ [][PumpNext]_vars

IsPrefix(s, t) == Len(s) <= Len(t) /\ SubSeq(t, 1, Len(s)) = s

\* C4: every node handles the messages that were posted to its inbox while its
\* pump ran in exactly the order they were posted; nothing relates the order of
\* two nodes' messages.
C4_DeliveryIsFifo ==
    \A n \in PumpNodes : IsPrefix(handled[n], accepted[n])

C4_Witness ==
    /\ Len(handled["app"]) >= 2
    /\ Len(handled["widget"]) >= 2
    /\ Len(message_queue["app"]) > 0

----------------------------------------------------------------------------
(* The node tree and the registry *)

InitTree ==
    ScreensIdle /\ PumpIdle /\ TreeIdle /\ RenderIdle /\ BridgeIdle /\ KeysIdle
    /\ OthersIdle

Range(s) == {s[i] : i \in 1..Len(s)}
Reverse(s) == [i \in 1..Len(s) |-> s[Len(s) + 1 - i]]

\* DOMNode.ancestors: the chain of parents of a node
RECURSIVE ancestors(_)
ancestors(n) ==
    IF parent[n] = NoParent THEN {} ELSE {parent[n]} \cup ancestors(parent[n])

\* a node is attached when its chain of parents reaches the screen
is_attached(n) == n = TreeRoot \/ TreeRoot \in ancestors(n)

\* what a mount may be given: a parent of the live tree, and a widget that is new or
\* already registered
Mountable(par, child) ==
    /\ par \in registry
    /\ is_attached(par)
    /\ par # child
    /\ child \notin mounted \/ child \in registry

\* the test of _register_child that rejects the call, with the check removed
BothGivenNever(before, after) == FALSE

\* the test of _register_child that rejects the call
BothGiven(before, after) == before # NoIndex /\ after # NoIndex

\* NodeList._insert: list.insert(index, child)
NodeListInsert(list, index, child) ==
    LET i == IF index > Len(list) THEN Len(list)
             ELSE IF index >= 0 THEN index
             ELSE IF Len(list) + index > 0 THEN Len(list) + index ELSE 0
    IN  SubSeq(list, 1, i) \o << child >> \o SubSeq(list, i + 1, Len(list))

\* NodeList._append
NodeListAppend(list, child) == Append(list, child)

\* a placement that takes after=k for the index k itself
PlaceAtAfter(list, child, before, after) ==
    IF before # NoIndex THEN NodeListInsert(list, before[1], child)
    ELSE IF after # NoIndex /\ after[1] # -1 THEN NodeListInsert(list, after[1], child)
    ELSE NodeListAppend(list, child)

\* where _register_child places a new child in its parent's list
Place(list, child, before, after) ==
    IF before # NoIndex THEN NodeListInsert(list, before[1], child)
    ELSE IF after # NoIndex /\ after[1] # -1 THEN NodeListInsert(list, after[1] + 1, child)
    ELSE NodeListAppend(list, child)

\* a synchronous stretch of the prune task is under way: nothing else runs
PruneBusy == prune_pc \in {"node", "group"}

prune_unchanged ==
    UNCHANGED <<closing, prune_tasks, dom_lock, prune_pc, prune_widgets, prune_root,
                node_children, walk_parent, close_log, pruned, cancels>>

\* a test that takes every child for a new one
InRegistryNever(child) == FALSE

\* `child not in self._registry`, the test that guards the registration
InRegistry(child) == child \in registry

\* _register_child(parent, child, before, after)
_register_child(par, child, before, after) ==
    /\ ~PruneBusy
    /\ IF BothGiven(before, after)
       THEN /\ tree_op' = [name |-> "register", error |-> "AppError",
                           before |-> before, after |-> after,
                           known |-> child \in registry]
            /\ UNCHANGED <<nodes, parent, registry, _running, mounted>>
       ELSE /\ tree_op' = [name |-> "register", error |-> "ok",
                           before |-> before, after |-> after,
                           known |-> child \in registry]
            /\ IF InRegistry(child)
               THEN UNCHANGED <<nodes, parent, registry, _running, mounted>>
               ELSE /\ nodes' = [nodes EXCEPT ![par] = Place(nodes[par], child, before, after)]
                    /\ registry' = registry \cup {child}
                    /\ parent' = [parent EXCEPT ![child] = par]
                    /\ _running' = [_running EXCEPT ![child] = TRUE]
                    /\ mounted' = mounted \cup {child}
    /\ prune_unchanged
    /\ UNCHANGED <<screens_vars, pump_vars, render_vars,
                   bridge_vars, keys_vars, other_vars>>

\* the positions a caller may name in a list of this length
BeforeIndexes(list) == {NoIndex} \cup {<< k >> : k \in 0..Len(list)}
AfterIndexes(list) == {NoIndex} \cup {<< k >> : k \in -1..(Len(list) - 1)}

RegistryNext ==
    \E par \in Nodes, child \in PlacedWidgets :
        \E before \in BeforeIndexes(nodes[par]), after \in AfterIndexes(nodes[par]) :
            /\ Mountable(par, child)
            /\ _register_child(par, child, before, after)

SpecRegistry == InitTree /\ [][RegistryNext]_vars

\* C8: registering a child that is not yet registered puts it at index k of its
\* parent's list for before=k, at index k+1 for after=k (k # -1), and at the end when
\* neither is given or after=-1; the children already there keep their relative order.
\* (Index k of the code's list is position k+1 of the sequence.)
C8_RegisterPlacesChild ==
    [][ (/\ tree_op'.name = "register"
         /\ tree_op'.error = "ok"
         /\ registry' # registry)
        => LET child == CHOOSE c \in registry' : c \notin registry
               before == tree_op'.before
               after == tree_op'.after
               old == nodes[parent'[child]]
               new == nodes'[parent'[child]]
           IN  /\ Len(new) = Len(old) + 1
               /\ SelectSeq(new, LAMBDA x : x # child) = old
               /\ before # NoIndex => new[before[1] + 1] = child
               /\ (before = NoIndex /\ after # NoIndex /\ after[1] # -1)
                      => new[after[1] + 2] = child
               /\ (before = NoIndex /\ (after = NoIndex \/ after[1] = -1))
                      => new[Len(new)] = child ]_vars

\* a child was registered with before=0 under a parent that had two children
C8_Witness ==
    /\ tree_op.name = "register"
    /\ tree_op.error = "ok"
    /\ tree_op.before = << 0 >>
    /\ \E par \in Nodes : Len(nodes[par]) = 3 /\ nodes[par] # << "p", "a", "b" >>

\* C9: a registration with both before and after given fails with AppError and leaves
\* the parent's child list, the registry, the child's parent pointer and the child's
\* pump state as they were.
C9_BothGivenChangesNothing ==
    [][ (/\ tree_op'.name = "register"
         /\ tree_op'.before # NoIndex
         /\ tree_op'.after # NoIndex)
        => /\ tree_op'.error = "AppError"
           /\ nodes' = nodes
           /\ registry' = registry
           /\ parent' = parent
           /\ _running' = _running ]_vars

\* a new child was offered with both positions, to a parent that has children
C9_Witness ==
    /\ tree_op.name = "register"
    /\ tree_op.error = "AppError"
    /\ tree_op.before = << 1 >>
    /\ tree_op.after = << 0 >>
    /\ Len(nodes[TreeRoot]) = 1
    /\ registry # Nodes

----------------------------------------------------------------------------
(* Removal and pruning *)

\* the removal requests: lists of distinct registered widgets
Requests ==
    {r \in UNION {[1..k -> registry \cap Widgets] : k \in 1..MaxRequest} :
        \A i, j \in 1..Len(r) : i # j => r[i] # r[j]}

\* every requested widget, subsumed or not
PrunedRemoveAll(widgets) == widgets

\* _detach_from_dom: the requested widgets none of whose ancestors is requested
PrunedRemove(widgets) ==
    SelectSeq(widgets, LAMBDA w : Range(widgets) \cap ancestors(w) = {})

\* the child lists once the parents of `gone` have forgotten them
ForgetChildren(gone) ==
    [n \in Nodes |-> SelectSeq(nodes[n], LAMBDA x : ~(x \in gone /\ parent[x] = n))]

\* the parent pointers once `gone` are detached
DetachAll(gone) ==
    [n \in Nodes |-> IF n \in gone THEN NoParent ELSE parent[n]]

\* walk_children(with_self=True) as a set: the node and every node below it
RECURSIVE Subtree(_)
Subtree(root) ==
    {root} \cup UNION {Subtree(nodes[root][i]) : i \in 1..Len(nodes[root])}

\* only the widgets that were asked for, without the nodes below them
EverythingRequestedOnly(widgets) == Range(widgets)

\* _detach_from_dom: everything that will not be in the DOM afterwards, which is the
\* requested widgets and every node below them
everything_to_remove(widgets) == UNION {Subtree(widgets[i]) : i \in 1..Len(widgets)}

\* the nodes that can take the focus
CanFocus == {"a", "a1", "b1", "b11"}

\* Screen._reset_focus(widget, avoiding): the focus goes to a focusable node of the
\* screen that is not one of `avoiding`, or to no node
_reset_focus(avoiding) ==
    {"None"} \cup {n \in CanFocus : n \in registry /\ is_attached(n) /\ n \notin avoiding}

\* Widget.blur() of every node of `gone`: a node that has the focus gives it up
blur(gone) == IF screen_focused \in gone THEN "None" ELSE screen_focused

\* _remove_nodes(widgets): _detach_from_dom, then the "prune nodes" task is created
_remove_nodes(widgets) ==
    /\ ~PruneBusy
    /\ Len(prune_tasks) < MaxTasks
    /\ LET pruned_remove == PrunedRemove(widgets)
       IN  /\ nodes' = ForgetChildren(Range(pruned_remove))
           /\ parent' = DetachAll(Range(pruned_remove))
           /\ prune_tasks' = Append(prune_tasks,
                                    [request |-> widgets, widgets |-> pruned_remove])
    /\ LET removed == everything_to_remove(widgets)
       IN  /\ IF screen_focused \in removed
              THEN screen_focused' \in _reset_focus(removed \cap CanFocus)
              ELSE UNCHANGED screen_focused
           /\ tree_op' = [name |-> "remove", error |-> "ok",
                          refocused |-> screen_focused \in removed]
    /\ UNCHANGED <<registry, _running, closing, mounted, dom_lock, prune_pc,
                   prune_widgets, prune_root, node_children, walk_parent, close_log,
                   pruned, cancels>>
    /\ UNCHANGED <<screens_vars, pump_vars, render_vars, bridge_vars, keys_vars,
                   suspend_vars, lock_vars, late_vars>>

\* a walk that yields a sibling list after the lists below it
RECURSIVE WalkStackChildrenFirst(_)
WalkStackChildrenFirst(stack) ==
    IF stack = << >> THEN << >>
    ELSE LET children == nodes[Last(stack)]
         IN  WalkStackChildrenFirst(Front(stack) \o children)
                 \o (IF children # << >> THEN << children >> ELSE << >>)

\* the loop of _walk_children over its stack: the last node pushed is visited next
RECURSIVE WalkStack(_)
WalkStack(stack) ==
    IF stack = << >> THEN << >>
    ELSE LET children == nodes[Last(stack)]
         IN  (IF children # << >> THEN << children >> ELSE << >>)
                 \o WalkStack(Front(stack) \o children)

\* _walk_children(root): the sibling lists of the subtree, depth first
_walk_children(root) == WalkStack(<< root >>)

\* the sibling lists in the order they were walked
SameOrder(node_lists) == node_lists

\* reversed(node_children)
Reversed(node_lists) == Reverse(node_lists)

\* the nodes of a list of sibling lists
WalkedNodes(node_lists) == UNION {Range(node_lists[i]) : i \in 1..Len(node_lists)}

\* _unregister applied to each of `gone`: the parent forgets the child, the child is
\* detached, and it leaves the registry
UnregisterAll(gone) ==
    /\ screen_focused' = blur(gone)
    /\ nodes' = ForgetChildren(gone)
    /\ parent' = DetachAll(gone)
    /\ registry' = registry \ gone

\* the "prune nodes" task starts: _prune_nodes takes _dom_lock
prune_widgets_task ==
    /\ prune_pc = "idle"
    /\ prune_tasks # << >>
    /\ ~dom_lock
    /\ dom_lock' = TRUE
    /\ prune_widgets' = Head(prune_tasks).widgets
    /\ prune_tasks' = Tail(prune_tasks)
    /\ prune_pc' = "node"
    /\ tree_op' = [name |-> "prune", error |-> "ok"]
    /\ UNCHANGED <<nodes, parent, registry, _running, closing, mounted, prune_root,
                   node_children, walk_parent, close_log, pruned, cancels>>
    /\ UNCHANGED <<screens_vars, pump_vars, render_vars,
                   bridge_vars, keys_vars, other_vars>>

\* _prune_nodes calls _prune_node(root) for the next widget: a root that is not in the
\* registry returns at once, any other is walked
_prune_node ==
    /\ prune_pc = "node"
    /\ prune_widgets # << >>
    /\ LET root == Head(prune_widgets)
       IN  IF root \notin registry
           THEN /\ prune_widgets' = Tail(prune_widgets)
                /\ pruned' = pruned \cup {root}
                /\ UNCHANGED <<prune_pc, prune_root, node_children, walk_parent, close_log>>
           ELSE /\ prune_root' = root
                /\ node_children' = Reversed(_walk_children(root))
                /\ walk_parent' =
                       [n \in Nodes |->
                           IF n \in WalkedNodes(_walk_children(root))
                           THEN parent[n] ELSE NoParent]
                /\ close_log' = << >>
                /\ prune_pc' = "group"
                /\ UNCHANGED <<prune_widgets, pruned>>
    /\ tree_op' = [name |-> "prune", error |-> "ok"]
    /\ UNCHANGED <<nodes, parent, registry, _running, closing, mounted, prune_tasks,
                   dom_lock, cancels>>
    /\ UNCHANGED <<screens_vars, pump_vars, render_vars,
                   bridge_vars, keys_vars, other_vars>>

\* the children of a sibling list whose pumps run
RunningOf(children) == {c \in Range(children) : _running[c]}

\* one turn of the loop over reversed(node_children): the running children of the next
\* sibling list are asked to close and awaited together; a list with no running child
\* is passed over
prune_close_children ==
    /\ prune_pc = "group"
    /\ node_children # << >>
    /\ LET awaited == RunningOf(Head(node_children))
       IN  IF awaited # {}
           THEN /\ closing' = closing \cup awaited
                /\ prune_pc' = "gather"
                /\ UNCHANGED node_children
           ELSE /\ node_children' = Tail(node_children)
                /\ UNCHANGED <<closing, prune_pc>>
    /\ tree_op' = [name |-> "prune", error |-> "ok"]
    /\ UNCHANGED <<nodes, parent, registry, _running, mounted, prune_tasks, dom_lock,
                   prune_widgets, prune_root, walk_parent, close_log, pruned, cancels>>
    /\ UNCHANGED <<screens_vars, pump_vars, render_vars,
                   bridge_vars, keys_vars, other_vars>>

\* a pump that was asked to close drains and exits
pump_exit(n) ==
    /\ ~PruneBusy
    /\ n \in closing
    /\ _running' = [_running EXCEPT ![n] = FALSE]
    /\ closing' = closing \ {n}
    /\ close_log' = Append(close_log, n)
    /\ tree_op' = [name |-> "pump", error |-> "ok"]
    /\ UNCHANGED <<nodes, parent, registry, mounted, prune_tasks, dom_lock, prune_pc,
                   prune_widgets, prune_root, node_children, walk_parent, pruned, cancels>>
    /\ UNCHANGED <<screens_vars, pump_vars, render_vars,
                   bridge_vars, keys_vars, other_vars>>

\* asyncio.gather returned: every child of the sibling list is unregistered
prune_unregister_children ==
    /\ prune_pc = "gather"
    /\ Range(Head(node_children)) \cap closing = {}
    /\ UnregisterAll(Range(Head(node_children)))
    /\ pruned' = pruned \cup Range(Head(node_children))
    /\ node_children' = Tail(node_children)
    /\ prune_pc' = "group"
    /\ tree_op' = [name |-> "prune", error |-> "ok"]
    /\ UNCHANGED <<_running, closing, mounted, prune_tasks, dom_lock, prune_widgets,
                   prune_root, walk_parent, close_log, cancels>>
    /\ UNCHANGED <<screens_vars, pump_vars, render_vars, bridge_vars, keys_vars,
                   suspend_vars, lock_vars, late_vars>>

\* after the loop: await root._close_messages(wait=True)
prune_close_root ==
    /\ prune_pc = "group"
    /\ node_children = << >>
    /\ closing' = IF _running[prune_root] THEN closing \cup {prune_root} ELSE closing
    /\ prune_pc' = "root"
    /\ tree_op' = [name |-> "prune", error |-> "ok"]
    /\ UNCHANGED <<nodes, parent, registry, _running, mounted, prune_tasks, dom_lock,
                   prune_widgets, prune_root, node_children, walk_parent, close_log,
                   pruned, cancels>>
    /\ UNCHANGED <<screens_vars, pump_vars, render_vars,
                   bridge_vars, keys_vars, other_vars>>

\* the root's pump has exited: self._unregister(root), and _prune_node returns
prune_unregister_root ==
    /\ prune_pc = "root"
    /\ prune_root \notin closing
    /\ UnregisterAll({prune_root})
    /\ pruned' = pruned \cup {prune_root} \cup {n \in Nodes : walk_parent[n] # NoParent}
    /\ prune_widgets' = Tail(prune_widgets)
    /\ prune_pc' = "node"
    /\ tree_op' = [name |-> "prune", error |-> "ok"]
    /\ UNCHANGED <<_running, closing, mounted, prune_tasks, dom_lock, prune_root,
                   node_children, walk_parent, close_log, cancels>>
    /\ UNCHANGED <<screens_vars, pump_vars, render_vars, bridge_vars, keys_vars,
                   suspend_vars, lock_vars, late_vars>>

\* every widget of the task is pruned: _dom_lock is released and the task ends
prune_finished ==
    /\ prune_pc = "node"
    /\ prune_widgets = << >>
    /\ dom_lock' = FALSE
    /\ prune_pc' = "idle"
    /\ tree_op' = [name |-> "prune", error |-> "ok"]
    /\ UNCHANGED <<nodes, parent, registry, _running, closing, mounted, prune_tasks,
                   prune_widgets, prune_root, node_children, walk_parent, close_log,
                   pruned, cancels>>
    /\ UNCHANGED <<screens_vars, pump_vars, render_vars,
                   bridge_vars, keys_vars, other_vars>>

\* the task of a pump is cancelled from outside: its loop exits
cancel_pump(n) ==
    /\ ~PruneBusy
    /\ cancels < MaxCancels
    /\ n \in registry \cap Widgets
    /\ _running[n]
    /\ n \notin closing
    /\ _running' = [_running EXCEPT ![n] = FALSE]
    /\ cancels' = cancels + 1
    /\ tree_op' = [name |-> "pump", error |-> "ok"]
    /\ UNCHANGED <<nodes, parent, registry, closing, mounted, prune_tasks, dom_lock,
                   prune_pc, prune_widgets, prune_root, node_children, walk_parent,
                   close_log, pruned>>
    /\ UNCHANGED <<screens_vars, pump_vars, render_vars,
                   bridge_vars, keys_vars, other_vars>>

\* a widget is mounted at the end of its parent's list
mount(child) ==
    /\ Mountable(MountParent[child], child)
    /\ _register_child(MountParent[child], child, NoIndex, NoIndex)

TreeNext ==
    \/ \E child \in Widgets : mount(child)
    \/ \E widgets \in Requests : _remove_nodes(widgets)
    \/ prune_widgets_task
    \/ _prune_node
    \/ prune_close_children
    \/ \E n \in Nodes : pump_exit(n)
    \/ prune_unregister_children
    \/ prune_close_root
    \/ prune_unregister_root
    \/ prune_finished
    \/ \E n \in Widgets : cancel_pump(n)

SpecTree == InitTree /\ [][TreeNext]_vars

----------------------------------------------------------------------------
(* Properties of pruning *)

\* the depth of a node below the root of the subtree _prune_node walked (the root: 0)
RECURSIVE WalkDepth(_)
WalkDepth(n) == IF walk_parent[n] = NoParent THEN 0 ELSE 1 + WalkDepth(walk_parent[n])

\* the ancestors of a node inside the subtree _prune_node walked, the root among them
RECURSIVE WalkAncestors(_)
WalkAncestors(n) ==
    IF walk_parent[n] = NoParent THEN {}
    ELSE {walk_parent[n]} \cup WalkAncestors(walk_parent[n])

\* the nodes of the walked subtree below a node
WalkDescendants(n) == {d \in Nodes : n \in WalkAncestors(d)}

\* the nodes below a node by the child lists as they are now
RECURSIVE Descendants(_)
Descendants(n) ==
    Range(nodes[n]) \cup UNION {Descendants(nodes[n][i]) : i \in 1..Len(nodes[n])}

\* C5 as the specification states it: whenever one pump is closed before another by
\* _prune_node, the first is at least as deep in the pruned subtree as the second
\* (every pump at depth d closes before any pump at a smaller depth).
C5_DeepestLevelFirst ==
    \A i, j \in 1..Len(close_log) :
        i < j => WalkDepth(close_log[i]) >= WalkDepth(close_log[j])

\* C5, amended: _prune_node closes the pumps one sibling list at a time, in the reverse
\* of the depth-first order of _walk_children, so every pump is closed before the pump
\* of any of its ancestors in the pruned subtree; pumps of different branches are not
\* ordered by depth.
C5_ChildrenBeforeAncestors ==
    \A i, j \in 1..Len(close_log) :
        i < j => close_log[i] \notin WalkAncestors(close_log[j]) \cup {close_log[j]}

\* a whole subtree of six nodes was closed, a node of one branch before a deeper node of
\* another branch
C5_Witness ==
    /\ Len(close_log) = 6
    /\ close_log[6] = prune_root
    /\ \E i, j \in 1..Len(close_log) :
           i < j /\ WalkDepth(close_log[i]) < WalkDepth(close_log[j])

\* the nodes the prune has asked to close, has closed, or has unregistered
ClosedOrUnregistered ==
    closing \cup Range(close_log) \cup (pruned \ registry)

\* C6: during _prune_node no node is closed or unregistered while the pump of one of
\* its descendants is running, and the root of the pruned subtree is closed and
\* unregistered last: it is registered while sibling lists are still being closed, and
\* when its close is asked for, no sibling list is left and no pump of the subtree runs.
C6_NoCloseOverRunningDescendant ==
    /\ \A n \in ClosedOrUnregistered :
           \A d \in Descendants(n) \cup WalkDescendants(n) : ~_running[d]
    /\ prune_pc \in {"group", "gather", "root"} => prune_root \in registry
    /\ prune_pc \in {"group", "gather"} =>
           prune_root \notin closing \cup Range(close_log)
    /\ prune_pc = "root" =>
           /\ node_children = << >>
           /\ \A d \in WalkDescendants(prune_root) : ~_running[d] /\ d \notin closing

\* the root of a subtree three levels deep is being closed, after five descendants
C6_Witness ==
    /\ prune_pc = "root"
    /\ prune_root \in closing
    /\ Len(close_log) = 5
    /\ \E d \in Nodes : WalkDepth(d) = 3 /\ d \in Range(close_log)

\* C7: _detach_from_dom detaches exactly the requested nodes that have no requested
\* ancestor, each once; a requested node below another requested node keeps its parent
\* and its place in its parent's child list.
C7_DetachesMinimalSet ==
    [][ Len(prune_tasks') > Len(prune_tasks)
        => LET task == prune_tasks'[Len(prune_tasks')]
               request == Range(task.request)
               minimal == {w \in request : request \cap ancestors(w) = {}}
           IN  /\ Range(task.widgets) = minimal
               /\ Len(task.widgets) = Cardinality(minimal)
               /\ \A w \in minimal :
                      /\ parent'[w] = NoParent
                      /\ \A n \in Nodes : ~InSeq(w, nodes'[n])
               /\ \A w \in Nodes \ minimal : parent'[w] = parent[w]
               /\ \A n \in Nodes :
                      nodes'[n] = SelectSeq(nodes[n], LAMBDA x : x \notin minimal)
               /\ \A w \in request \ minimal :
                      /\ parent[w] # NoParent
                      /\ nodes'[parent[w]] = nodes[parent[w]]
                      /\ InSeq(w, nodes'[parent[w]]) ]_vars

\* a request named a node and one of its descendants; only the node was detached
C7_Witness ==
    /\ prune_tasks # << >>
    /\ LET task == prune_tasks[Len(prune_tasks)]
       IN  /\ Len(task.request) = 2
           /\ Len(task.widgets) = 1
           /\ parent[task.widgets[1]] = NoParent
           /\ \E w \in Range(task.request) :
                  /\ task.widgets[1] \in ancestors(w)
                  /\ InSeq(w, nodes[parent[w]])

\* C10 as the specification states it: a node is in the registry exactly when it has
\* been registered and its pruning has not completed; once _prune_node(root) has
\* returned, neither root nor a node of its subtree is in the registry.
C10_RegistryIffLive ==
    \A n \in Widgets : n \in registry <=> (n \in mounted /\ n \notin pruned)

----------------------------------------------------------------------------
(* Update batches: AppRenderer.batch_update, _begin_batch, _end_batch, refresh *)

InitBatch ==
    ScreensIdle /\ PumpIdle /\ TreeIdle /\ RenderIdle /\ BridgeIdle /\ KeysIdle
    /\ OthersIdle

\* _end_batch as if a scope that is left by an exception skipped the decrement
EndBatchCountOnReturn(count, outcome) == IF outcome = "raise" THEN count ELSE count - 1

\* _batch_count after _begin_batch
BeginBatchCount(count) == count + 1

\* _batch_count after _end_batch; batch_update calls it in a finally block, so the way the
\* scope is left (outcome) makes no difference
EndBatchCount(count, outcome) == count - 1

\* _end_batch as if every exit of a scope flushed
EndBatchFlushesAlways(count) == TRUE

\* _end_batch calls check_idle() when the counter is back at zero
EndBatchFlushes(count) == count = 0

\* refresh() calls check_idle() whatever _batch_count is
RefreshChecksIdle(count) == TRUE

render_unchanged ==
    UNCHANGED <<screens_vars, tree_vars, bridge_vars, keys_vars, other_vars,
                pump_running, pump_closed, message_queue, sent, accepted, handled,
                exit_flag>>

\* entering `with batch_update():`
batch_update_enter ==
    /\ batch_scopes < MaxDepth
    /\ batch_count' = BeginBatchCount(batch_count)
    /\ batch_scopes' = batch_scopes + 1
    /\ IF batch_scopes = 0
       THEN refresh_requests' = 0 /\ idle_checks' = 0
       ELSE UNCHANGED <<refresh_requests, idle_checks>>
    /\ render_op' = [name |-> "enter", outcome |-> "return", count |-> batch_count]
    /\ UNCHANGED <<_recompose_required, compositor_recompose_required, recomposes,
                   next_calls>>
    /\ render_unchanged

\* leaving `with batch_update():`, by reaching its end ("return") or by an exception of
\* the body ("raise"): the finally block runs _end_batch
batch_update_exit(outcome) ==
    /\ batch_scopes > 0
    /\ LET count == EndBatchCount(batch_count, outcome)
       IN  /\ batch_count' = count
           /\ batch_scopes' = batch_scopes - 1
           /\ IF count < 0
              THEN /\ render_op' = [name |-> "exit", outcome |-> "AssertionError",
                                    count |-> batch_count]
                   /\ UNCHANGED idle_checks
              ELSE /\ render_op' = [name |-> "exit", outcome |-> outcome,
                                    count |-> batch_count]
                   /\ idle_checks' = IF EndBatchFlushes(count)
                                     THEN idle_checks + 1 ELSE idle_checks
    /\ UNCHANGED <<refresh_requests, _recompose_required, compositor_recompose_required,
                   recomposes, next_calls>>
    /\ render_unchanged

\* refresh(repaint, layout, recompose)
refresh(recompose) ==
    /\ refresh_requests < MaxRefresh
    /\ recompose => next_calls < MaxCalls
    /\ refresh_requests' = refresh_requests + 1
    /\ IF recompose
       THEN /\ _recompose_required' = TRUE
            /\ next_calls' = next_calls + 1
            /\ recomposes' = IF next_calls = 0 THEN 0 ELSE recomposes
            /\ UNCHANGED idle_checks
       ELSE /\ idle_checks' = IF RefreshChecksIdle(batch_count)
                              THEN idle_checks + 1 ELSE idle_checks
            /\ UNCHANGED <<_recompose_required, recomposes, next_calls>>
    /\ render_op' = [name |-> IF recompose THEN "recompose" ELSE "refresh",
                     outcome |-> "return", count |-> batch_count]
    /\ UNCHANGED <<batch_count, batch_scopes, compositor_recompose_required>>
    /\ render_unchanged

\* _check_recompose, run by the callback that refresh(recompose=True) scheduled: it is a
\* method of the AppCompositor and tests the compositor's own flag, which __init__ set
\* to False; the flag that refresh() raised is an attribute of the AppRenderer
_check_recompose ==
    /\ next_calls > 0
    /\ next_calls' = next_calls - 1
    /\ IF compositor_recompose_required
       THEN /\ compositor_recompose_required' = FALSE
            /\ recomposes' = recomposes + 1
       ELSE UNCHANGED <<compositor_recompose_required, recomposes>>
    /\ UNCHANGED _recompose_required
    /\ render_op' = [name |-> "check_recompose", outcome |-> "return", count |-> batch_count]
    /\ UNCHANGED <<batch_count, batch_scopes, refresh_requests, idle_checks>>
    /\ render_unchanged

BatchNext ==
    \/ batch_update_enter
    \/ \E outcome \in {"return", "raise"} : batch_update_exit(outcome)
    \/ \E recompose \in BOOLEAN : refresh(recompose)
    \/ _check_recompose

SpecBatch == InitBatch /\ [][BatchNext]_vars

----------------------------------------------------------------------------
(* Properties of the update batches *)

C12_CounterMatchesOpenScopes ==
    /\ batch_count = batch_scopes
    /\ batch_count >= 0
    /\ render_op.name = "exit" =>
           /\ render_op.outcome \in {"return", "raise"}
           /\ batch_count = render_op.count - 1

\* the outermost scope was left by an exception, after refresh requests inside
C12_Witness ==
    /\ render_op.name = "exit"
    /\ render_op.outcome = "raise"
    /\ render_op.count = 1
    /\ batch_scopes = 0
    /\ batch_count = 0
    /\ refresh_requests > 0

----------------------------------------------------------------------------
(* The bridge for calls from other threads: App.call_from_thread, with the *)
(* entry points run and run_async of the lifespan controller               *)

\* threading.get_ident() of the thread that runs the app, and of two worker threads
AppThread == 1
Threads == {1, 2, 3}

\* the event loop a run stores
TheLoop == "loop"

\* what the callback handed to call_from_thread does when it is invoked
CallbackKinds == {"returns", "raises"}

\* the ways to start the app: run() where asyncio.run is used (Python 3.10 and later),
\* run() where get_event_loop().run_until_complete is used, and run_async awaited on a
\* loop of the caller
Entries == {"run", "run_until_complete", "run_async"}

InitBridge ==
    ScreensIdle /\ PumpIdle /\ TreeIdle /\ RenderIdle /\ BridgeIdle /\ KeysIdle
    /\ OthersIdle

bridge_unchanged == UNCHANGED <<screens_vars, pump_vars, tree_vars,
                   render_vars, keys_vars, other_vars>>

\* call_from_thread as if it looked at the loop only
SameThreadNever(caller, thread_id) == FALSE

\* the check `self._thread_id == threading.get_ident()`
SameThread(caller, thread_id) == thread_id = caller

\* Future.result() of the scheduled callback: its result, or its exception raised again
FutureResult(callback) == IF callback = "raises" THEN "raised" ELSE "result"

\* the state of the loop once the run on it has ended: asyncio.run closes its loop,
\* run_until_complete leaves it open and stopped, the loop of a caller of run_async
\* goes on running
LoopAfterRun(entry) ==
    CASE entry = "run" -> "closed"
      [] entry = "run_until_complete" -> "stopped"
      [] OTHER -> "running"

\* run() / run_async() up to the point where the app processes messages: run_app stores
\* the loop and the thread on the controller, run_async stores them on the app.  A run
\* is started when no thread still waits on the loop of the run before.
run_begin(entry) ==
    /\ run_state.phase # "running"
    /\ futures = << >>
    /\ runs < MaxRuns
    /\ runs' = runs + 1
    /\ UNCHANGED futures
    /\ IF entry = "run_async"
       THEN UNCHANGED <<controller_loop, controller_thread_id>>
       ELSE /\ controller_loop' = TheLoop
            /\ controller_thread_id' = AppThread
    /\ _loop' = TheLoop
    /\ _thread_id' = AppThread
    /\ loop_state' = "running"
    /\ run_state' = [entry |-> entry, phase |-> "running"]
    /\ bridge_op' = [name |-> "run", caller |-> AppThread, callback |-> "none",
                     outcome |-> "none"]
    /\ bridge_unchanged

\* the end of the run: _process_messages returns, run_async shuts down and returns, and
\* the finally block of run_app clears the controller's _loop and _thread_id
run_end ==
    /\ run_state.phase = "running"
    /\ IF run_state.entry = "run_async"
       THEN UNCHANGED <<controller_loop, controller_thread_id>>
       ELSE /\ controller_loop' = NoLoop
            /\ controller_thread_id' = 0
    /\ loop_state' = LoopAfterRun(run_state.entry)
    /\ run_state' = [run_state EXCEPT !.phase = "ended"]
    /\ bridge_op' = [name |-> "run_end", caller |-> AppThread, callback |-> "none",
                     outcome |-> "none"]
    /\ UNCHANGED <<_loop, _thread_id, futures, runs>>
    /\ bridge_unchanged

\* the loop on which run_async was awaited ends after the app did
loop_end ==
    /\ run_state.phase = "ended"
    /\ loop_state = "running"
    /\ loop_state' = "closed"
    /\ bridge_op' = [name |-> "loop_end", caller |-> AppThread, callback |-> "none",
                     outcome |-> "none"]
    /\ UNCHANGED <<_loop, _thread_id, controller_loop, controller_thread_id, run_state,
                   futures, runs>>
    /\ bridge_unchanged

\* a thread that waits in future.result()
Waiting(caller) == \E i \in 1..Len(futures) : futures[i].caller = caller

\* call_from_thread(callback) on thread caller, up to future.result()
call_from_thread(caller, callback) ==
    /\ ~Waiting(caller)
    /\ LET error == \/ _loop = NoLoop
                    \/ SameThread(caller, _thread_id)
                    \/ loop_state = "closed"
       IN  /\ futures' = IF error
                         THEN futures
                         ELSE Append(futures, [caller |-> caller, callback |-> callback])
           /\ bridge_op' = [name |-> "call_from_thread", caller |-> caller,
                            callback |-> callback,
                            outcome |-> IF error THEN "RuntimeError" ELSE "waiting"]
    /\ UNCHANGED <<_loop, _thread_id, controller_loop, controller_thread_id, loop_state,
                   run_state, runs>>
    /\ bridge_unchanged

\* the loop runs the callback that was scheduled first, and future.result() returns in
\* the thread that waits for it
run_callback ==
    /\ futures # << >>
    /\ loop_state = "running"
    /\ futures' = Tail(futures)
    /\ bridge_op' = [name |-> "result", caller |-> Head(futures).caller,
                     callback |-> Head(futures).callback,
                     outcome |-> FutureResult(Head(futures).callback)]
    /\ UNCHANGED <<_loop, _thread_id, controller_loop, controller_thread_id, loop_state,
                   run_state, runs>>
    /\ bridge_unchanged

BridgeNext ==
    \/ \E entry \in Entries : run_begin(entry)
    \/ run_end
    \/ loop_end
    \/ \E caller \in Threads, callback \in CallbackKinds : call_from_thread(caller, callback)
    \/ run_callback

SpecBridge == InitBridge /\ [][BridgeNext]_vars

----------------------------------------------------------------------------
(* Properties of the bridge *)

C14_RejectedWhenNotRunning ==
    [][ (bridge_op'.name = "call_from_thread" /\ run_state.phase # "running") =>
            (bridge_op'.outcome = "RuntimeError" /\ futures' = futures) ]_vars

----------------------------------------------------------------------------
(* Further properties of the screen controller, checked under SpecScreens *)

\* C15: switch_screen with a target, an instance or a name that resolves to the
\* instance, that is already the current screen is a no-op: the stacks, the current
\* mode and every screen's result callbacks stay as they were, no ScreenSuspend or
\* ScreenResume is posted, no callback is invoked and no screen is removed.
C15_SwitchToCurrentChangesNothing ==
    [][ (op'.name = "switch_screen" /\ get_screen(op'.arg) = CurrentScreen)
        => /\ screen_stacks' = screen_stacks
           /\ current_mode' = current_mode
           /\ result_callbacks' = result_callbacks
           /\ pending_remove' = pending_remove
           /\ posted' = << >>
           /\ invoked' = << >> ]_vars

\* the current screen, above another one, was switched to by its name
C15_Witness ==
    /\ op.name = "switch_screen"
    /\ op.arg \in ScreenNames
    /\ get_screen(op.arg) = CurrentScreen
    /\ Len(ActiveStack) = 2
    /\ posted = << >>

\* C16: switch_screen to a screen S that is not the current one replaces the top of the
\* active stack within the one step: the stack keeps its length, the entries below the
\* top and the stacks of the other modes stay as they were, S is on top, the old top was
\* sent ScreenSuspend and then S was sent ScreenResume; the step leaves no stack
\* without the old top and without S.
C16_SwitchReplacesTop ==
    [][ (/\ op'.name = "switch_screen"
         /\ get_screen(op'.arg) \in Screens
         /\ get_screen(op'.arg) # CurrentScreen)
        => LET S == get_screen(op'.arg) IN
           /\ op'.error = "ok"
           /\ current_mode' = current_mode
           /\ DOMAIN screen_stacks' = DOMAIN screen_stacks
           /\ \A m \in DOMAIN screen_stacks \ {current_mode} :
                  screen_stacks'[m] = screen_stacks[m]
           /\ Len(ActiveStack') = Len(ActiveStack)
           /\ Front(ActiveStack') = Front(ActiveStack)
           /\ Last(ActiveStack') = S
           /\ posted' = << Msg(CurrentScreen, "ScreenSuspend"),
                           Msg(S, "ScreenResume") >> ]_vars

\* the top of a stack of two was replaced by another screen
C16_Witness ==
    /\ op.name = "switch_screen"
    /\ op.error = "ok"
    /\ Len(ActiveStack) = 2
    /\ Last(ActiveStack) = get_screen(op.arg)
    /\ Len(posted) = 2
    /\ posted[1].to # posted[2].to

\* C17: switch_mode(m) for a mode m that is not registered fails with UnknownModeError
\* before any effect: the current mode, the stacks and the modes stay as they were and
\* no ScreenSuspend or ScreenResume is posted.
C17_UnknownModeChangesNothing ==
    [][ (op'.name = "switch_mode" /\ op'.arg \notin DOMAIN MODES)
        => /\ op'.error = "UnknownModeError"
           /\ current_mode' = current_mode
           /\ screen_stacks' = screen_stacks
           /\ MODES' = MODES
           /\ screen_running' = screen_running
           /\ posted' = << >> ]_vars

\* with a registered mode active, switch_mode named "_default", which has a stack but
\* is no registered mode
C17_Witness ==
    /\ op.name = "switch_mode"
    /\ op.error = "UnknownModeError"
    /\ op.arg \in DOMAIN screen_stacks
    /\ current_mode # op.arg
    /\ current_mode \in DOMAIN MODES

C19_ModeErrorsChangeNothing ==
    [][ LET unchanged == /\ MODES' = MODES
                         /\ screen_stacks' = screen_stacks
                         /\ current_mode' = current_mode
                         /\ pending_remove' = pending_remove
                         /\ posted' = << >>
        IN  /\ (op'.name = "add_mode" /\ (op'.arg = "_default" \/ op'.arg \in DOMAIN MODES))
                   => (op'.error = "InvalidModeError" /\ unchanged)
            /\ (op'.name = "remove_mode" /\ op'.arg = current_mode)
                   => (op'.error = "ActiveModeError" /\ unchanged)
            /\ (op'.name = "remove_mode" /\ op'.arg # current_mode
                    /\ op'.arg \notin DOMAIN MODES)
                   => (op'.error = "UnknownModeError" /\ unchanged) ]_vars

\* add_mode was refused the reserved name while two modes were registered
C19_Witness ==
    /\ op.name = "add_mode"
    /\ op.arg = "_default"
    /\ op.error = "InvalidModeError"
    /\ Cardinality(DOMAIN MODES) = 2

\* C20: when pop_screen, switch_screen or remove_mode takes a screen off a stack, the
\* removal of that screen is scheduled exactly when the screen is not installed and is
\* on no stack that remains (and is still registered, so that there is something to
\* remove); an installed screen is never removed, and no other screen is.
C20_RemovedIffUnreferenced ==
    [][ (op'.name \in {"pop_screen", "switch_screen", "remove_mode"} /\ op'.error = "ok")
        => LET taken == IF op'.name # "remove_mode" THEN {CurrentScreen}
                        ELSE IF op'.arg \in DOMAIN screen_stacks
                        THEN Range(screen_stacks[op'.arg])
                        ELSE {}
               unreferenced(s) ==
                   /\ ~is_screen_installed(s)
                   /\ \A m \in DOMAIN screen_stacks' : ~InSeq(s, screen_stacks'[m])
           IN  /\ \A s \in taken :
                     /\ s \in pending_remove' <=>
                            (s \in pending_remove \/ (unreferenced(s) /\ s \in screen_running'))
                     /\ is_screen_installed(s) => s \notin pending_remove'
               /\ \A s \in Screens \ taken :
                     s \in pending_remove' <=> s \in pending_remove ]_vars

\* an installed screen was taken off the last stack that held it and was kept, while
\* a screen that is not installed waits for its removal
C20_Witness ==
    /\ op.name \in {"pop_screen", "switch_screen", "remove_mode"}
    /\ op.error = "ok"
    /\ pending_remove # {}
    /\ \E s \in Screens :
           /\ is_screen_installed(s)
           /\ s \in screen_running
           /\ s \notin pending_remove
           /\ \A m \in DOMAIN screen_stacks : ~InSeq(s, screen_stacks[m])

\* C21 as the specification states it: whenever pop_screen or switch_screen takes a
\* screen off a stack, a base screen that Compose or the first activation of a mode put
\* there included, the screen has a pending result-callback entry to consume.
C21_TakenScreenHasEntry ==
    [][ (op'.name \in {"pop_screen", "switch_screen"} /\ op'.error = "ok")
        => Len(result_callbacks[CurrentScreen]) > 0 ]_vars

----------------------------------------------------------------------------
(* Key presses: the binding chain, check_bindings, run_action and          *)
(* _dispatch_action of the event handler; failures of handlers and the     *)
(* return code of the run                                                  *)

\* what the action of a binding does when it is run: its method returns, it raises
\* SkipAction, check_action refuses it, or its method raises another exception
ActionKinds == {"handled", "skip", "disabled", "raises"}

\* the bindings a namespace may have for the key
Bindings ==
    {NoBinding} \cup
    [bound : {TRUE}, priority : BOOLEAN, action : ActionKinds]

\* the position of a namespace from the root down
Rank(namespace) ==
    CASE namespace = "app" -> 1
      [] namespace = "screen" -> 2
      [] OTHER -> 3

\* _binding_chain: the screen and the app when nothing is focused, otherwise the
\* focused node and its ancestors up to the app
_binding_chain(focus) ==
    IF focus = "None" THEN << "screen", "app" >> ELSE << focus, "screen", "app" >>

\* a priority walk that starts at the focused node
PriorityOrderFocusFirst(chain) == chain

\* the order of a priority walk: reversed(_binding_chain), from the app down
PriorityOrder(chain) == Reverse(chain)

\* a dispatch that lets SkipAction out
DispatchSkipRaises(action) ==
    CASE action = "handled" -> "True"
      [] action = "raises" -> "raised"
      [] action = "skip" -> "raised"
      [] OTHER -> "False"

\* what run_action gives for an action: True when its method was invoked and returned,
\* False when check_action refused it or the method raised SkipAction; any other
\* exception of the method leaves run_action
Dispatch(action) ==
    CASE action = "handled" -> "True"
      [] action = "raises" -> "raised"
      [] OTHER -> "False"

\* a walk that goes on after an action handled the key
WalkStopsOnRaise(returned) == returned = "raised"

\* check_bindings returns at the first action that handled the key (an exception ends
\* it as well)
WalkStops(returned) == returned # "False"

\* check_bindings(key, priority) over the namespaces of `chain`, in that order: the
\* run_action calls it makes
RECURSIVE CheckBindings(_, _)
CheckBindings(chain, priority) ==
    IF Len(chain) = 0 THEN << >>
    ELSE LET binding == key_bindings[Head(chain)]
         IN  IF binding.bound /\ binding.priority = priority
             THEN LET returned == Dispatch(binding.action)
                      entry == [namespace |-> Head(chain), priority |-> priority,
                                action |-> binding.action, returned |-> returned]
                  IN  IF WalkStops(returned)
                      THEN << entry >>
                      ELSE << entry >> \o CheckBindings(Tail(chain), priority)
             ELSE CheckBindings(Tail(chain), priority)

\* what check_bindings gave: "True", "False", or "raised"
WalkResult(log) == IF Len(log) = 0 THEN "False" ELSE log[Len(log)].returned

InitKeys ==
    /\ ScreensIdle /\ PumpIdle /\ TreeIdle /\ RenderIdle /\ BridgeIdle /\ OthersIdle
    /\ key_bindings \in [Namespaces -> Bindings]
    /\ focused = "None"
    /\ key_pc = "idle"
    /\ key_log = << >>
    /\ key_result = "none"
    /\ key_presses = 0
    /\ _return_code = NoCode
    /\ handler_return_code = NoCode
    /\ _exception = "None"
    /\ fatal = FALSE

keys_unchanged == UNCHANGED <<screens_vars, tree_vars, render_vars, bridge_vars, other_vars>>

\* the exception of a handler reaches the dispatch boundary: _handle_exception sets the
\* error handler's return code, notes the first exception of a headless run and closes
\* the app's messages
HandleException(is_headless) ==
    /\ handler_return_code' = << 1 >>
    /\ _exception' = IF is_headless /\ _exception = "None" THEN "error" ELSE _exception
    /\ fatal' = TRUE
    /\ message_queue' = [message_queue EXCEPT !["app"] = QueuePut(@, CloseSentinel)]
    /\ UNCHANGED <<pump_running, pump_closed, sent, accepted, handled, exit_flag,
                   batch_count, _return_code>>

NoException ==
    UNCHANGED <<pump_vars, _return_code, handler_return_code, _exception, fatal>>

\* the focus moves to the widget, or away from it
set_focus ==
    /\ pump_running["app"]
    /\ focused' = IF focused = "None" THEN "widget" ELSE "None"
    /\ UNCHANGED <<key_bindings, key_pc, key_log, key_result, key_presses>>
    /\ NoException
    /\ keys_unchanged

\* on_event(Key): the priority bindings are checked; when none handled the key the
\* event is forwarded to the focused node, or to the screen
key_press(is_headless) ==
    /\ pump_running["app"]
    /\ key_pc = "idle"
    /\ key_presses < MaxKeys
    /\ key_presses' = key_presses + 1
    /\ LET log == CheckBindings(PriorityOrder(_binding_chain(focused)), TRUE)
       IN  /\ key_log' = log
           /\ CASE WalkResult(log) = "True" ->
                       /\ key_pc' = "idle"
                       /\ key_result' = "priority"
                       /\ NoException
                [] WalkResult(log) = "raised" ->
                       /\ key_pc' = "idle"
                       /\ key_result' = "raised"
                       /\ HandleException(is_headless)
                [] OTHER ->
                       /\ key_pc' = "forwarded"
                       /\ key_result' = "forwarded"
                       /\ NoException
    /\ UNCHANGED <<key_bindings, focused>>
    /\ keys_unchanged

\* _on_key: the Key event has come back to the app, and the bindings without priority
\* are checked
_on_key(is_headless) ==
    /\ pump_running["app"]
    /\ key_pc = "forwarded"
    /\ key_pc' = "idle"
    /\ LET log == CheckBindings(_binding_chain(focused), FALSE)
       IN  /\ key_log' = key_log \o log
           /\ CASE WalkResult(log) = "True" ->
                       /\ key_result' = "normal"
                       /\ NoException
                [] WalkResult(log) = "raised" ->
                       /\ key_result' = "raised"
                       /\ HandleException(is_headless)
                [] OTHER ->
                       /\ key_result' = "unhandled"
                       /\ NoException
    /\ UNCHANGED <<key_bindings, focused, key_presses>>
    /\ keys_unchanged

\* a handler of the focused node or of one of its ancestors stops the Key event, so
\* that it does not come back to the app
key_stopped ==
    /\ pump_running["app"]
    /\ key_pc = "forwarded"
    /\ key_pc' = "idle"
    /\ key_result' = "stopped"
    /\ UNCHANGED <<key_bindings, focused, key_log, key_presses>>
    /\ NoException
    /\ keys_unchanged

KeysNext ==
    \/ start_messages("app")
    \/ set_focus
    \/ \E is_headless \in BOOLEAN : key_press(is_headless)
    \/ \E is_headless \in BOOLEAN : _on_key(is_headless)
    \/ key_stopped
    \/ \E return_code \in ReturnCodes : exit(return_code)
    \/ process_message("app")

SpecKeys == InitKeys /\ [][KeysNext]_vars

----------------------------------------------------------------------------
(* Properties of the key dispatch *)

\* C22: for a key press the priority bindings are run first, from the root down to the
\* focused node, and the bindings without priority only afterwards, from the focused
\* node up to the root, and only when no priority binding handled the key: once an
\* action has handled the key no further action runs for that key press.
C22_PriorityFirstRootDown ==
    /\ \A i, j \in 1..Len(key_log) :
           i < j =>
               LET a == key_log[i]
                   b == key_log[j]
               IN  /\ a.returned = "False"
                   /\ ~(~a.priority /\ b.priority)
                   /\ (a.priority /\ b.priority) => Rank(a.namespace) < Rank(b.namespace)
                   /\ (~a.priority /\ ~b.priority) => Rank(a.namespace) > Rank(b.namespace)
    /\ key_pc = "forwarded" =>
           \A i \in 1..Len(key_log) : key_log[i].priority /\ key_log[i].returned = "False"
    /\ key_result = "priority" =>
           /\ key_log # << >>
           /\ key_log[Len(key_log)].priority
           /\ key_log[Len(key_log)].returned = "True"

\* two priority bindings declined, the app's first and then the screen's, and a
\* binding without priority of the focused widget handled the key
C22_Witness ==
    /\ Len(key_log) = 3
    /\ key_log[1].priority /\ key_log[1].namespace = "app"
    /\ key_log[2].priority /\ key_log[2].namespace = "screen"
    /\ ~key_log[3].priority /\ key_log[3].namespace = "widget"
    /\ key_result = "normal"

C24_SkipIsNotAnError ==
    [][ (key_log' # key_log /\ \A i \in 1..Len(key_log') : key_log'[i].action # "raises")
        => /\ \A i \in 1..Len(key_log') :
                  key_log'[i].action = "skip" => key_log'[i].returned = "False"
           /\ key_result' # "raised"
           /\ exit_flag' = exit_flag
           /\ _return_code' = _return_code
           /\ handler_return_code' = handler_return_code
           /\ _exception' = _exception
           /\ fatal' = fatal
           /\ message_queue' = message_queue ]_vars

\* every binding of the chain declined by SkipAction and the key press ended unhandled
C24_Witness ==
    /\ key_result = "unhandled"
    /\ Len(key_log) >= 2
    /\ \A i \in 1..Len(key_log) : key_log[i].action = "skip"
    /\ ~fatal
    /\ _return_code = NoCode

\* C25 as the specification states it: in a run in which the exception of a handler
\* was routed to _handle_exception, the return code at the end of the run is not zero,
\* whatever calls to exit() were made before or after the failure.
C25_FatalRunReturnsNonZero ==
    (fatal /\ pump_closed["app"]) => (_return_code # NoCode /\ _return_code # << 0 >>)

----------------------------------------------------------------------------
(* Further properties of the screen stacks *)

\* C26 as the specification states it: push_screen with wait_for_dismiss outside a
\* worker fails with NoActiveWorker at once: the screen is not put on the stack, no
\* result callback is attached to it and no message is posted.
C26_NoActiveWorkerChangesNothing ==
    [][ (op'.name = "push_screen" /\ op'.error = "NoActiveWorker")
        => /\ screen_stacks' = screen_stacks
           /\ result_callbacks' = result_callbacks
           /\ posted' = << >> ]_vars

\* the screens that are instances of _SystemModalScreen: the command palette is the only
\* one, and it is not among the screens of the model
SystemModals == {}

\* the list AppCompositor.__init__ stored: the value of the controller's _screen_stack
\* property when the app was constructed, which is the list of mode "_default"; no
\* operation binds another list to that mode
CompositorStack == screen_stacks["_default"]

\* the children view over a stack: the top-most screen that is not a system modal, or
\* nothing
RECURSIVE children(_)
children(stack) ==
    IF Len(stack) = 0 THEN << >>
    ELSE IF Last(stack) \notin SystemModals THEN << Last(stack) >>
    ELSE children(Front(stack))

\* C27 as the specification states it: after push_screen, pop_screen, switch_screen and
\* switch_mode the children view of the app has at most one element, the currently
\* active screen, which is the top-most screen of the stack of the active mode that is
\* not a system modal.
C27_ChildrenIsActiveScreen ==
    app_phase = "running" =>
        /\ Len(children(CompositorStack)) <= 1
        /\ children(CompositorStack) = children(ActiveStack)

----------------------------------------------------------------------------
(* App.suspend: the context manager and the calls it makes to the driver *)

suspend_unchanged ==
    UNCHANGED <<screens_vars, pump_vars, tree_vars, render_vars, bridge_vars,
                keys_vars, focus_vars, lock_vars, late_vars>>

InitSuspend ==
    /\ ScreensIdle /\ PumpIdle /\ TreeIdle /\ RenderIdle /\ BridgeIdle /\ KeysIdle
    /\ FocusIdle /\ LockIdle /\ LateIdle
    /\ _driver \in {"None", "driver"}
    /\ can_suspend \in BOOLEAN
    /\ application_mode = TRUE
    /\ suspend_blocks = << >>
    /\ driver_log = << >>
    /\ suspend_calls = 0
    /\ suspend_op = [name |-> "init", outcome |-> "none"]

\* `with suspend():` is entered: the code of suspend() up to its yield.  Without a
\* driver the generator returns before it yields, which the context manager reports as
\* a RuntimeError; a driver that cannot suspend gives SuspendNotSupported.
suspend_enter ==
    /\ suspend_calls < MaxSuspends
    /\ suspend_calls' = suspend_calls + 1
    /\ IF _driver = "None"
       THEN /\ suspend_op' = [name |-> "enter", outcome |-> "RuntimeError"]
            /\ UNCHANGED <<application_mode, suspend_blocks, driver_log>>
       ELSE IF can_suspend
       THEN /\ driver_log' = driver_log \o << "app-suspend", "suspend_application_mode",
                                              "no_automatic_restart" >>
            /\ application_mode' = FALSE
            /\ suspend_blocks' = Append(suspend_blocks, suspend_calls + 1)
            /\ suspend_op' = [name |-> "enter", outcome |-> "ok"]
       ELSE /\ suspend_op' = [name |-> "enter", outcome |-> "SuspendNotSupported"]
            /\ UNCHANGED <<application_mode, suspend_blocks, driver_log>>
    /\ UNCHANGED <<_driver, can_suspend>>
    /\ suspend_unchanged

\* the innermost `with suspend():` block ends: the code of suspend() after its yield.
\* An exception of the block is raised at the yield: it leaves the inner `with` (which
\* restores the automatic restart) and then the generator, whose remaining statements
\* do not run.
suspend_exit(outcome) ==
    /\ suspend_blocks # << >>
    /\ suspend_blocks' = Front(suspend_blocks)
    /\ IF outcome = "return"
       THEN /\ driver_log' = driver_log \o << "automatic_restart",
                                              "resume_application_mode", "app-resume" >>
            /\ application_mode' = TRUE
       ELSE /\ driver_log' = driver_log \o << "automatic_restart" >>
            /\ UNCHANGED application_mode
    /\ suspend_op' = [name |-> "exit", outcome |-> outcome]
    /\ UNCHANGED <<_driver, can_suspend, suspend_calls>>
    /\ suspend_unchanged

SuspendNext ==
    \/ suspend_enter
    \/ \E outcome \in {"return", "raise"} : suspend_exit(outcome)

SpecSuspend == InitSuspend /\ [][SuspendNext]_vars

\* C28 as the specification states it: with a driver that can suspend, every suspend()
\* block that suspended application mode resumes it when the block ends, normally or by
\* an exception: the end of the block calls resume_application_mode and publishes the
\* resume signal.
C28_BlockEndResumes ==
    [][ (suspend_op'.name = "exit" /\ driver_log' # driver_log)
        => /\ application_mode'
           /\ Len(driver_log') >= 2
           /\ driver_log'[Len(driver_log') - 1] = "resume_application_mode"
           /\ driver_log'[Len(driver_log')] = "app-resume" ]_vars

----------------------------------------------------------------------------
(* The focus of the screen while nodes are removed *)

\* Screen.set_focus(widget): the focus goes to a focusable node of the screen, or to
\* no node
screen_set_focus(widget) ==
    /\ ~PruneBusy
    /\ widget # screen_focused
    /\ widget = "None" \/ (widget \in CanFocus /\ widget \in registry /\ is_attached(widget))
    /\ screen_focused' = widget
    /\ tree_op' = [name |-> "set_focus", error |-> "ok"]
    /\ UNCHANGED <<nodes, parent, registry, _running, closing, mounted>>
    /\ prune_unchanged
    /\ UNCHANGED <<screens_vars, pump_vars, render_vars, bridge_vars, keys_vars,
                   suspend_vars, lock_vars, late_vars>>

\* mounts, removals, the steps of the prune task and changes of the focus
FocusNext ==
    \/ \E child \in Widgets : mount(child)
    \/ \E widgets \in Requests : _remove_nodes(widgets)
    \/ prune_widgets_task
    \/ _prune_node
    \/ prune_close_children
    \/ \E n \in Nodes : pump_exit(n)
    \/ prune_unregister_children
    \/ prune_close_root
    \/ prune_unregister_root
    \/ prune_finished
    \/ \E widget \in CanFocus \cup {"None"} : screen_set_focus(widget)

SpecFocus == InitTree /\ [][FocusNext]_vars

\* C29: when the focused node is one of the nodes a removal takes out of the tree (the
\* requested nodes and every node below them), _detach_from_dom gives the focus to a
\* node that stays, or to none; a removal that does not take the focused node out leaves
\* the focus alone; and in no state is the focused node a node that has been detached.
C29_FocusNeverDetached ==
    /\ [][ (tree_op'.name = "remove" /\ prune_tasks' # prune_tasks)
           => LET removed == {n \in Nodes : is_attached(n) /\ ~is_attached(n)'}
              IN  /\ screen_focused' \notin removed
                  /\ screen_focused \notin removed => screen_focused' = screen_focused
                  /\ tree_op'.refocused = (screen_focused \in removed) ]_vars
    /\ [](screen_focused # "None"
              => screen_focused \in registry /\ is_attached(screen_focused))

\* "b" was removed while a node below it had the focus: the focus went to a node that
\* stays in the tree, and the nodes below "b" are out of it
C29_Witness ==
    /\ tree_op.name = "remove"
    /\ tree_op.refocused
    /\ prune_tasks # << >>
    /\ prune_tasks[Len(prune_tasks)].request = << "b" >>
    /\ screen_focused \in {"a", "a1"}
    /\ parent["b11"] = "b1"
    /\ ~is_attached("b11")

----------------------------------------------------------------------------
(* Prune operations and _dom_lock *)

lock_unchanged ==
    UNCHANGED <<screens_vars, pump_vars, tree_vars, render_vars, bridge_vars,
                keys_vars, suspend_vars, focus_vars, late_vars>>

InitLock ==
    /\ ScreensIdle /\ PumpIdle /\ TreeIdle /\ RenderIdle /\ BridgeIdle /\ KeysIdle
    /\ SuspendIdle /\ FocusIdle /\ LateIdle
    /\ remove_tasks = [t \in PruneTasks |-> [pc |-> "none", left |-> 0]]
    /\ _dom_lock = 0
    /\ close_all = [pc |-> "none", left |-> 0]
    /\ lock_op = [name |-> "init", who |-> 0]

\* _remove_nodes: _detach_from_dom detaches the widgets in the caller's own step, and
\* the "prune nodes" task is created for the `count` widgets it returned
remove_nodes_call(t, count) ==
    /\ remove_tasks[t].pc = "none"
    /\ \A u \in PruneTasks : u < t => remove_tasks[u].pc # "none"
    /\ remove_tasks' = [remove_tasks EXCEPT ![t] = [pc |-> "created", left |-> count]]
    /\ lock_op' = [name |-> "detach", who |-> t]
    /\ UNCHANGED <<_dom_lock, close_all>>
    /\ lock_unchanged

\* _prune_nodes: `async with self._dom_lock` is entered when the lock is free
prune_nodes_acquire(t) ==
    /\ remove_tasks[t].pc = "created"
    /\ _dom_lock = 0
    /\ _dom_lock' = t
    /\ remove_tasks' = [remove_tasks EXCEPT ![t].pc = "locked"]
    /\ lock_op' = [name |-> "acquire", who |-> t]
    /\ UNCHANGED close_all
    /\ lock_unchanged

\* _prune_node of the task's next widget: the pumps are asked to close and awaited
prune_node_close(t) ==
    /\ remove_tasks[t].pc = "locked"
    /\ remove_tasks[t].left > 0
    /\ remove_tasks' = [remove_tasks EXCEPT ![t].pc = "closing"]
    /\ lock_op' = [name |-> "close", who |-> t]
    /\ UNCHANGED <<_dom_lock, close_all>>
    /\ lock_unchanged

\* the pumps have exited: the nodes are unregistered and _prune_node returns
prune_node_unregister(t) ==
    /\ remove_tasks[t].pc = "closing"
    /\ remove_tasks' = [remove_tasks EXCEPT ![t] = [pc |-> "locked", left |-> @.left - 1]]
    /\ lock_op' = [name |-> "unregister", who |-> t]
    /\ UNCHANGED <<_dom_lock, close_all>>
    /\ lock_unchanged

\* the loop of _prune_nodes is over: the `async with` block releases the lock
prune_nodes_release(t) ==
    /\ remove_tasks[t].pc = "locked"
    /\ remove_tasks[t].left = 0
    /\ _dom_lock' = 0
    /\ remove_tasks' = [remove_tasks EXCEPT ![t].pc = "done"]
    /\ lock_op' = [name |-> "release", who |-> t]
    /\ UNCHANGED close_all
    /\ lock_unchanged

\* _close_all starts, with `count` running screens on the stacks
close_all_begin(count) ==
    /\ close_all.pc = "none"
    /\ close_all' = [pc |-> "pruning", left |-> count]
    /\ lock_op' = [name |-> "shutdown", who |-> CloseAll]
    /\ UNCHANGED <<remove_tasks, _dom_lock>>
    /\ lock_unchanged

\* _close_all: await self._prune_node(stack_screen), called without _dom_lock: the pumps
\* of the screen's subtree are asked to close and awaited
close_all_close ==
    /\ close_all.pc = "pruning"
    /\ close_all.left > 0
    /\ close_all' = [close_all EXCEPT !.pc = "closing"]
    /\ lock_op' = [name |-> "close", who |-> CloseAll]
    /\ UNCHANGED <<remove_tasks, _dom_lock>>
    /\ lock_unchanged

\* the pumps have exited: the screen's nodes are unregistered
close_all_unregister ==
    /\ close_all.pc = "closing"
    /\ close_all' = [pc |-> "pruning", left |-> close_all.left - 1]
    /\ lock_op' = [name |-> "unregister", who |-> CloseAll]
    /\ UNCHANGED <<remove_tasks, _dom_lock>>
    /\ lock_unchanged

\* every stack is cleared
close_all_end ==
    /\ close_all.pc = "pruning"
    /\ close_all.left = 0
    /\ close_all' = [close_all EXCEPT !.pc = "done"]
    /\ lock_op' = [name |-> "shutdown", who |-> CloseAll]
    /\ UNCHANGED <<remove_tasks, _dom_lock>>
    /\ lock_unchanged

LockNext ==
    \/ \E t \in PruneTasks, count \in 1..MaxNodes : remove_nodes_call(t, count)
    \/ \E t \in PruneTasks : prune_nodes_acquire(t)
    \/ \E t \in PruneTasks : prune_node_close(t)
    \/ \E t \in PruneTasks : prune_node_unregister(t)
    \/ \E t \in PruneTasks : prune_nodes_release(t)
    \/ \E count \in 1..MaxNodes : close_all_begin(count)
    \/ close_all_close
    \/ close_all_unregister
    \/ close_all_end

SpecLock == InitLock /\ [][LockNext]_vars

\* a prune operation is between its first detach or close and its last unregister
InProgress(p) ==
    IF p = CloseAll
    THEN close_all.pc = "closing" \/ (close_all.pc = "pruning" /\ close_all.left > 0)
    ELSE \/ remove_tasks[p].pc \in {"created", "closing"}
         \/ (remove_tasks[p].pc = "locked" /\ remove_tasks[p].left > 0)

\* C30 as the specification states it: no two prune operations interleave their detach
\* and close phases: while one is between its first detach or close and its last
\* unregister, no other one (a "prune nodes" task, or _close_all at shutdown) detaches,
\* closes or unregisters a node.
C30_PrunesDoNotInterleave ==
    [][ \A p \in PruneTasks \cup {CloseAll} :
            (InProgress(p) /\ lock_op'.who # p)
                => lock_op'.name \notin {"detach", "close", "unregister"} ]_vars

----------------------------------------------------------------------------
(* Further properties of modes, notifications and registration *)

\* C40: whatever switch_mode, add_mode and remove_mode calls are made, the current mode
\* has a stack in the table of stacks, and no step deletes the stack of the mode that is
\* current before or after it.
C40_CurrentModeHasStack ==
    /\ [](current_mode \in DOMAIN screen_stacks)
    /\ [][ \A m \in DOMAIN screen_stacks \ DOMAIN screen_stacks' :
               m # current_mode /\ m # current_mode' ]_vars

\* remove_mode deleted the stack of a mode that had been active, while another
\* registered mode was current
C40_Witness ==
    /\ op.name = "remove_mode"
    /\ op.error = "ok"
    /\ op.arg \notin DOMAIN screen_stacks
    /\ posted # << >>
    /\ current_mode \in DOMAIN MODES
    /\ current_mode \in DOMAIN screen_stacks

\* C39: registering a node that is already in the registry changes nothing, whatever
\* parent and whatever before or after position is given (not both): the child lists,
\* the parent pointers, the registry and the pump states stay as they were.
C39_RegisterKnownChangesNothing ==
    [][ (/\ tree_op'.name = "register"
         /\ tree_op'.known
         /\ ~(tree_op'.before # NoIndex /\ tree_op'.after # NoIndex))
        => /\ tree_op'.error = "ok"
           /\ nodes' = nodes
           /\ parent' = parent
           /\ registry' = registry
           /\ _running' = _running ]_vars

\* a widget that is registered under the screen was registered again, before the first
\* child of another parent
C39_Witness ==
    /\ tree_op.name = "register"
    /\ tree_op.known
    /\ tree_op.error = "ok"
    /\ tree_op.before = << 0 >>
    /\ tree_op.after = NoIndex
    /\ Len(nodes[TreeRoot]) >= 2
    /\ \E n \in Widgets : nodes[n] # << >>

\* C36: when refresh(recompose=True) was called one or more times and every check it
\* scheduled has run, exactly one recompose was made and the flag that refresh raised
\* is clear again.
C36_BurstGivesOneRecompose ==
    (render_op.name = "check_recompose" /\ next_calls = 0)
        => (recomposes = 1 /\ ~_recompose_required)

\* the last ScreenSuspend / ScreenResume that the receiver of the i-th message of a step
\* got before that message
NoteBefore(i) == Notified(notified, SubSeq(posted', 1, i - 1))[posted'[i].to]

\* C32: the ScreenSuspend and ScreenResume messages posted to one screen alternate, and
\* after every operation the last of them posted to the current screen is ScreenResume.
C32_SuspendResumeAlternate ==
    [][ /\ \A i \in 1..Len(posted') : posted'[i].kind # NoteBefore(i)
        /\ (app_phase' = "running" /\ ActiveStack' # << >>)
              => notified'[CurrentScreen'] = "ScreenResume" ]_vars

----------------------------------------------------------------------------
(* Mouse capture (AppEventHandler.capture_mouse) *)

\* capture_mouse as if it never took the widget for the holder
SameWidgetNever(widget, captured) == FALSE

\* `widget == self.mouse_captured`
SameWidget(widget, captured) == widget = captured

\* the messages capture_mouse(widget) posts: MouseRelease to the holder, if there is one,
\* then MouseCapture to the widget, if one is given
MousePosts(widget) ==
    (IF mouse_captured # "None" THEN << Msg(mouse_captured, "MouseRelease") >> ELSE << >>)
    \o (IF widget # "None" THEN << Msg(widget, "MouseCapture") >> ELSE << >>)

\* the logs of the widgets after the messages msgs were posted in order
RECURSIVE MouseLogged(_, _)
MouseLogged(log, msgs) ==
    IF msgs = << >> THEN log
    ELSE MouseLogged([log EXCEPT ![Head(msgs).to] = Append(@, Head(msgs).kind)],
                     Tail(msgs))

mouse_unchanged ==
    UNCHANGED <<screens_vars, pump_vars, tree_vars, render_vars, bridge_vars, keys_vars,
                suspend_vars, focus_vars, lock_vars, run_vars>>

InitMouse ==
    ScreensIdle /\ PumpIdle /\ TreeIdle /\ RenderIdle /\ BridgeIdle /\ KeysIdle
    /\ OthersIdle

\* capture_mouse(widget); widget is "None" to end the capture
capture_mouse(widget) ==
    /\ mouse_op' = [name |-> "capture_mouse", arg |-> widget,
                    posted |-> IF SameWidget(widget, mouse_captured)
                               THEN << >> ELSE MousePosts(widget)]
    /\ IF SameWidget(widget, mouse_captured)
       THEN UNCHANGED <<mouse_captured, mouse_log>>
       ELSE /\ \A i \in 1..Len(MousePosts(widget)) :
                  Len(mouse_log[MousePosts(widget)[i].to]) < MaxMouse
            /\ mouse_log' = MouseLogged(mouse_log, MousePosts(widget))
            /\ mouse_captured' = widget
    /\ mouse_unchanged

MouseNext == \E widget \in MouseWidgets \cup {"None"} : capture_mouse(widget)

SpecMouse == InitMouse /\ [][MouseNext]_vars

\* C38: at most one widget holds the capture: the holder is the only widget whose last
\* message is MouseCapture; the messages posted to one widget alternate, MouseCapture
\* first; capture_mouse given the holder (or None when nobody holds the mouse) posts
\* nothing and changes nothing.
C38_CaptureReleaseAlternate ==
    /\ [](\A w \in MouseWidgets :
            /\ \A i \in 1..Len(mouse_log[w]) :
                  mouse_log[w][i] = IF i % 2 = 1 THEN "MouseCapture" ELSE "MouseRelease"
            /\ (mouse_log[w] # << >> /\ Last(mouse_log[w]) = "MouseCapture")
                  <=> w = mouse_captured)
    /\ [][ (mouse_op'.name = "capture_mouse" /\ mouse_op'.arg = mouse_captured)
             => /\ mouse_op'.posted = << >>
                /\ mouse_log' = mouse_log
                /\ mouse_captured' = mouse_captured ]_vars

C38_Witness ==
    /\ mouse_op = [name |-> "capture_mouse", arg |-> "a", posted |-> << >>]
    /\ mouse_captured = "a"
    /\ mouse_log["a"] = << "MouseCapture", "MouseRelease", "MouseCapture" >>
    /\ mouse_log["b"] = << "MouseCapture", "MouseRelease" >>

----------------------------------------------------------------------------
(* _unregister of single nodes, the app included as the parent of the screens *)

\* the app, the screens registered under it, and widgets registered under a screen or
\* under another widget
AppNode == "app"
DomScreens == {"screen", "modal"}
DomWidgets == {"a", "b"}
DomNodes == {AppNode} \cup DomScreens \cup DomWidgets

\* isinstance(node, Widget): a Screen is a Widget, the App is a DOMNode only
IsWidget(node) == node \in DomScreens \cup DomWidgets

dom_unchanged ==
    UNCHANGED <<closing, mounted, prune_tasks, dom_lock, prune_pc, prune_widgets,
                prune_root, node_children, walk_parent, close_log, pruned, cancels,
                screens_vars, pump_vars, render_vars, bridge_vars, keys_vars,
                suspend_vars, lock_vars, late_vars>>

\* the app after __init__: nothing is registered, only the app's own pump runs
InitDom ==
    /\ ScreensIdle /\ PumpIdle /\ RenderIdle /\ BridgeIdle /\ KeysIdle
    /\ SuspendIdle /\ FocusIdle /\ LockIdle /\ LateIdle
    /\ nodes = [n \in DomNodes |-> << >>]
    /\ parent = [n \in DomNodes |-> NoParent]
    /\ registry = {}
    /\ _running = [n \in DomNodes |-> n = AppNode]
    /\ closing = {}
    /\ mounted = {}
    /\ prune_tasks = << >>
    /\ dom_lock = FALSE
    /\ prune_pc = "idle"
    /\ prune_widgets = << >>
    /\ prune_root = NoParent
    /\ node_children = << >>
    /\ walk_parent = [n \in Nodes |-> NoParent]
    /\ close_log = << >>
    /\ pruned = {}
    /\ cancels = 0
    /\ tree_op = [name |-> "init", error |-> "ok", node |-> NoParent]

\* _register_child(parent, child, None, None) for a child that was never registered:
\* a screen goes under the app (_register(self._app, screen)), a widget under a
\* registered screen or widget
dom_register(p, child) ==
    /\ child \notin registry
    /\ parent[child] = NoParent
    /\ \A n \in DomNodes : ~InSeq(child, nodes[n])
    /\ IF child \in DomScreens THEN p = AppNode ELSE p \in registry
    /\ nodes' = [nodes EXCEPT ![p] = Append(@, child)]
    /\ registry' = registry \cup {child}
    /\ parent' = [parent EXCEPT ![child] = p]
    /\ _running' = [_running EXCEPT ![child] = TRUE]
    /\ tree_op' = [name |-> "register", error |-> "ok", node |-> child]
    /\ UNCHANGED screen_focused
    /\ dom_unchanged

\* a registered widget takes the focus
dom_focus(widget) ==
    /\ widget \in registry \cap DomWidgets
    /\ screen_focused # widget
    /\ screen_focused' = widget
    /\ tree_op' = [name |-> "focus", error |-> "ok", node |-> widget]
    /\ UNCHANGED <<nodes, parent, registry, _running>>
    /\ dom_unchanged

\* the pump of a registered node has been closed
dom_close(node) ==
    /\ node \in registry
    /\ _running[node]
    /\ _running' = [_running EXCEPT ![node] = FALSE]
    /\ tree_op' = [name |-> "close", error |-> "ok", node |-> node]
    /\ UNCHANGED <<nodes, parent, registry, screen_focused>>
    /\ dom_unchanged

\* _unregister(widget) for a registered node
_unregister(widget) ==
    /\ widget \in registry
    /\ screen_focused' = blur({widget})
    /\ IF parent[widget] # NoParent /\ IsWidget(parent[widget])
       THEN /\ nodes' = [nodes EXCEPT ![parent[widget]] =
                            SelectSeq(@, LAMBDA x : x # widget)]
            /\ parent' = [parent EXCEPT ![widget] = NoParent]
       ELSE UNCHANGED <<nodes, parent>>
    /\ registry' = registry \ {widget}
    /\ tree_op' = [name |-> "_unregister", error |-> "ok", node |-> widget]
    /\ UNCHANGED _running
    /\ dom_unchanged

DomNext ==
    \/ \E p \in DomNodes, child \in DomScreens \cup DomWidgets : dom_register(p, child)
    \/ \E widget \in DomWidgets : dom_focus(widget)
    \/ \E node \in DomScreens \cup DomWidgets : dom_close(node)
    \/ \E widget \in DomScreens \cup DomWidgets : _unregister(widget)

SpecUnregister == InitDom /\ [][DomNext]_vars

\* C31: _unregister of a registered node, a screen under the app included, takes the
\* focus from the node, takes the node out of the child list of its parent, takes it
\* out of the registry, and leaves every pump as it was.
C31_UnregisterDetachesEveryNode ==
    [][ (tree_op'.name = "_unregister" /\ tree_op'.node \in registry)
        => /\ screen_focused' # tree_op'.node
           /\ \A n \in DomNodes : ~InSeq(tree_op'.node, nodes'[n])
           /\ tree_op'.node \notin registry'
           /\ _running' = _running ]_vars

----------------------------------------------------------------------------
(* One run of the app: run_async, _process_messages, _shutdown *)

\* _shutdown as if it did not begin a batch
ShutdownBatchCountKept(count) == count

\* `self._app._begin_batch()` of _shutdown and of _on_exit_app
ShutdownBatchCount(count) == BeginBatchCount(count)

\* `if inline_no_clear: console.print(self.screen._compositor)`
PrintsScreen(inline_no_clear) == inline_no_clear

run_unchanged ==
    UNCHANGED <<screens_vars, tree_vars, render_vars, bridge_vars, keys_vars,
                suspend_vars, focus_vars, lock_vars, mouse_vars,
                pump_running, pump_closed, message_queue, sent, accepted, handled>>

\* the app as constructed: the AppLifespanController was given the driver the App had
\* in __init__, which is None
InitRun ==
    /\ InitScreenVars /\ PumpIdle /\ TreeIdle /\ RenderIdle /\ BridgeIdle /\ KeysIdle
    /\ FocusIdle /\ LockIdle /\ LateIdle
    /\ _driver = "None"
    /\ can_suspend = TRUE
    /\ application_mode = TRUE
    /\ suspend_blocks = << >>
    /\ driver_log = << >>
    /\ suspend_calls = 0
    /\ suspend_op = [name |-> "init", outcome |-> "none"]

\* run_async(auto_pilot=..., inline_no_clear=...) is called
run_async(auto_pilot, inline_no_clear) ==
    /\ run_pc = "idle"
    /\ run_pc' = "process"
    /\ run_in' = [auto_pilot |-> auto_pilot, inline_no_clear |-> inline_no_clear]
    /\ UNCHANGED <<handler_driver, auto_pilot_task, run_log, exit_flag, batch_count>>
    /\ run_unchanged

\* exit() is called, by a handler of Load or by a handler of the message loop
run_exit ==
    /\ run_pc \in {"process", "loop"}
    /\ ~exit_flag
    /\ exit_flag' = TRUE
    /\ UNCHANGED <<run_vars, batch_count>>
    /\ run_unchanged

\* _process_messages up to the start of the application mode: the CSS is read
\* ("css_error": the error is printed and the method returns), Load is dispatched
\* ("load_error": the exception is handled by the outer except), the driver is built,
\* and unless the exit flag is set the application mode is started
_process_messages(outcome) ==
    /\ run_pc = "process"
    /\ IF outcome = "ok"
       THEN /\ handler_driver' = "driver"
            /\ IF exit_flag
               THEN run_pc' = "after" /\ UNCHANGED run_log
               ELSE /\ run_pc' = "compose"
                    /\ run_log' = Append(run_log, "start_application_mode")
       ELSE run_pc' = "after" /\ UNCHANGED <<handler_driver, run_log>>
    /\ UNCHANGED <<run_in, auto_pilot_task, exit_flag, batch_count>>
    /\ run_unchanged

\* run_process_messages: Compose and Mount were dispatched ("return") or Compose raised
\* before the default screen was on the stack ("raise"); in both cases the finally
\* block invokes the ready callback, which creates the auto-pilot task
run_process_messages(outcome) ==
    /\ run_pc = "compose"
    /\ IF outcome = "return"
       THEN app_phase = "running" /\ run_pc' = "loop"
       ELSE app_phase = "init" /\ run_pc' = "finally"
    /\ auto_pilot_task' = IF run_in.auto_pilot THEN "task" ELSE "None"
    /\ UNCHANGED <<run_in, handler_driver, run_log, exit_flag, batch_count>>
    /\ run_unchanged

\* the message loop handles ExitApp: _on_exit_app begins a batch and puts the close
\* sentinel on the app's queue
_on_exit_app ==
    /\ run_pc = "loop"
    /\ exit_flag
    /\ run_pc' = "closing"
    /\ batch_count' = ShutdownBatchCount(batch_count)
    /\ run_log' = Append(run_log, "_on_exit_app")
    /\ UNCHANGED <<run_in, handler_driver, auto_pilot_task, exit_flag>>
    /\ run_unchanged

\* _process_messages_loop ends: by the close sentinel ("return"), by the cancellation of
\* the task ("CancelledError") or by an exception
_process_messages_loop(outcome) ==
    /\ run_pc \in {"loop", "closing"}
    /\ outcome = "return" => run_pc = "closing"
    /\ run_pc' = "finally"
    /\ UNCHANGED <<run_in, handler_driver, auto_pilot_task, run_log, exit_flag,
                   batch_count>>
    /\ run_unchanged

\* the finally block of _process_messages: with inline_no_clear the current screen is
\* printed, which raises ScreenStackError when the stack is empty; otherwise the
\* application mode is stopped
process_messages_finally ==
    /\ run_pc = "finally"
    /\ run_pc' = "after"
    /\ IF PrintsScreen(run_in.inline_no_clear) /\ ActiveStack = << >>
       THEN UNCHANGED run_log
       ELSE run_log' = Append(run_log, "stop_application_mode")
    /\ UNCHANGED <<run_in, handler_driver, auto_pilot_task, exit_flag, batch_count>>
    /\ run_unchanged

\* the finally block of run_async awaits the auto-pilot task, if there is one; when the
\* auto-pilot raised, run_auto_pilot has called exit()
await_auto_pilot(outcome) ==
    /\ run_pc = "after"
    /\ outcome = "raise" => auto_pilot_task = "task"
    /\ exit_flag' = IF outcome = "raise" THEN TRUE ELSE exit_flag
    /\ run_pc' = "shutdown"
    /\ UNCHANGED <<run_in, handler_driver, auto_pilot_task, run_log, batch_count>>
    /\ run_unchanged

\* _shutdown up to `await self._app._close_all()`: a batch begins, and the input of the
\* controller's driver is disabled when it has one
_shutdown ==
    /\ run_pc = "shutdown"
    /\ run_pc' = "close_all"
    /\ batch_count' = ShutdownBatchCount(batch_count)
    /\ run_log' = run_log \o << "_shutdown" >>
                   \o (IF _driver # "None" THEN << "disable_input" >> ELSE << >>)
    /\ UNCHANGED <<run_in, handler_driver, auto_pilot_task, exit_flag>>
    /\ run_unchanged

\* _shutdown after _close_all: `await self._app._close_messages()`
shutdown_close_messages ==
    /\ run_pc = "close_all"
    /\ app_phase = "closed"
    /\ run_pc' = "unmount"
    /\ run_log' = Append(run_log, "_close_messages")
    /\ UNCHANGED <<run_in, handler_driver, auto_pilot_task, exit_flag, batch_count>>
    /\ run_unchanged

\* _shutdown: `await self._dispatch_message(events.Unmount())`
shutdown_unmount ==
    /\ run_pc = "unmount"
    /\ run_pc' = "close_driver"
    /\ run_log' = Append(run_log, "Unmount")
    /\ UNCHANGED <<run_in, handler_driver, auto_pilot_task, exit_flag, batch_count>>
    /\ run_unchanged

\* _shutdown: `if self._driver is not None: self._driver.close()`, and the end of the run
shutdown_close_driver ==
    /\ run_pc = "close_driver"
    /\ run_pc' = "done"
    /\ run_log' = IF _driver # "None" THEN Append(run_log, "close") ELSE run_log
    /\ UNCHANGED <<run_in, handler_driver, auto_pilot_task, exit_flag, batch_count>>
    /\ run_unchanged

RunNext ==
    \/ \E auto_pilot \in BOOLEAN, inline_no_clear \in BOOLEAN :
          run_async(auto_pilot, inline_no_clear)
    \/ run_exit
    \/ \E outcome \in {"ok", "css_error", "load_error"} : _process_messages(outcome)
    \/ run_pc = "compose" /\ Compose
    \/ \E outcome \in {"return", "raise"} : run_process_messages(outcome)
    \/ run_pc = "loop" /\ \E arg \in ScreenArgs : push_screen(arg, "None", FALSE, FALSE)
    \/ run_pc = "loop" /\ pop_screen
    \/ run_pc \notin {"idle", "done"} /\ batch_update_enter
    \/ run_pc \notin {"idle", "done"}
          /\ \E outcome \in {"return", "raise"} : batch_update_exit(outcome)
    \/ _on_exit_app
    \/ \E outcome \in {"return", "CancelledError", "Exception"} :
          _process_messages_loop(outcome)
    \/ process_messages_finally
    \/ \E outcome \in {"return", "raise"} : await_auto_pilot(outcome)
    \/ _shutdown
    \/ run_pc = "close_all" /\ _close_all
    \/ shutdown_close_messages
    \/ shutdown_unmount
    \/ shutdown_close_driver

SpecRun == InitRun /\ [][RunNext]_vars

\* how many times the call or step e is in the log
Count(log, e) == Cardinality({i \in 1..Len(log) : log[i] = e})

\* _process_messages has returned or raised
ProcessMessagesOver == run_pc \in {"after", "shutdown", "close_all", "unmount",
                                    "close_driver", "done"}

\* C33: a run that called start_application_mode has called stop_application_mode
\* exactly once when _process_messages is over, however the message processing ended;
\* a run whose exit flag is set when the driver is built does not start the
\* application mode.
C33_StartedModeIsStopped ==
    [][ /\ Count(run_log', "stop_application_mode")
              <= Count(run_log', "start_application_mode")
        /\ ProcessMessagesOver' =>
              Count(run_log', "stop_application_mode")
                  = Count(run_log', "start_application_mode")
        /\ (run_pc = "process" /\ run_pc' # "process" /\ exit_flag)
              => Count(run_log', "start_application_mode") = 0 ]_vars

\* the last k entries of the log
LogTail(log, k) == SubSeq(log, Len(log) - k + 1, Len(log))

\* C34: every run executes _shutdown exactly once, however the message processing and
\* the auto-pilot ended; when the app's own pump is closed, _close_all is over, every
\* stack is empty and no screen has a running pump; the run ends with the app's pump
\* closed, then Unmount dispatched, then the driver that was built closed.
C34_ShutdownOnceInOrder ==
    [][ /\ Count(run_log', "_shutdown") <= 1
        /\ (run_pc = "close_all" /\ run_pc' = "unmount")
              => /\ app_phase = "closed"
                 /\ \A mode \in DOMAIN screen_stacks : screen_stacks[mode] = << >>
                 /\ screen_running = {}
        /\ (run_pc' = "done" /\ run_pc # "done")
              => /\ Count(run_log', "_shutdown") = 1
                 /\ IF handler_driver = "None"
                    THEN LogTail(run_log', 2) = << "_close_messages", "Unmount" >>
                    ELSE LogTail(run_log', 3) = << "_close_messages", "Unmount", "close" >>
      ]_vars

\* the shutdown has begun: _on_exit_app or _shutdown has run
ShutdownBegun == Count(run_log, "_on_exit_app") + Count(run_log, "_shutdown") > 0

\* C35: once the shutdown has begun, _batch_count is above zero for the rest of the run,
\* and no exit of a batch_update scope calls check_idle.
C35_NoIdleCheckInShutdown ==
    /\ [](ShutdownBegun => batch_count > 0)
    /\ [][ (ShutdownBegun /\ batch_scopes' < batch_scopes)
             => idle_checks' = idle_checks ]_vars

C35_Witness ==
    /\ Count(run_log, "_on_exit_app") = 1
    /\ Count(run_log, "_shutdown") = 1
    /\ run_pc = "done"
    /\ render_op.name = "exit"
    /\ render_op.count = 3
    /\ batch_scopes = 0
    /\ batch_count = 2
    /\ idle_checks = 0

\* C37: the finished event of a _remove_nodes call is set only after every node the call
\* removed is closed and unregistered: when the last "prune nodes" task ends, no node
\* that was removed from the tree is in the registry or has a running pump.
C37_FinishedOnlyAfterPruned ==
    [][ (prune_pc = "node" /\ prune_pc' = "idle" /\ prune_tasks = << >>)
        => \A n \in mounted :
               ~is_attached(n) => (n \notin registry /\ ~_running[n]) ]_vars

====
